---- MODULE Spec2Model ----
(***************************************************************************)
(* State-machine model of the ICP DEX price notifier:                      *)
(*   - the price history store and alert tables   (src/core/database.py)   *)
(*   - the alert evaluator                        (src/core/alert_system.py)*)
(*   - the ticker normaliser and get_icp_prices   (src/core/api_client.py) *)
(*   - the scheduled jobs                         (main.py)                *)
(*   - the arbitrage calculator       (src/core/nicp_arbitrage_client.py)*)
(*   - the WaterNeuron rate cache        (src/core/waterneuron_client.py) *)
(*   - the notification texts and the scheduler thread (alert_system.py,  *)
(*     telegram_bot.py, main.py)                                           *)
(*                                                                         *)
(* Numbers.  Prices, volumes and thresholds are floats in the program; the *)
(* model uses integers and exact rationals (a percent change is the pair   *)
(* num/den), so float rounding is not modelled.  Time is in seconds.       *)
(***************************************************************************)
EXTENDS Integers, Sequences, FiniteSets, TLC

VARIABLES
    now,            \* the wall clock, in seconds (datetime.now / CURRENT_TIMESTAMP)
    price_history,  \* table price_history: sequence of rows, in rowid order
    next_id,        \* the AUTOINCREMENT counter of price_history
    user_alerts,    \* table user_alerts: sequence of rows, row i has id i
    alert_log,      \* table alert_log: sequence of rows
    last_alerts,    \* AlertSystem.last_alerts: cooldown key -> time of the last fire
    telegram_bot,   \* AlertSystem.telegram_bot is attached (TRUE) or None (FALSE)
    icpswap_response,   \* what the ICPSwap endpoint answers to a request
    kongswap_response,  \* what the KongSwap endpoints answer to a request
    DIRECT_STAKING_RATE,  \* NICPArbitrageClient.DIRECT_STAKING_RATE
    arbitrage,      \* the last calculate_arbitrage_opportunity call and its result
    outbox,         \* the bot.send_message calls of the last notification job
    running,        \* ICPMonitorApp.running
    scheduler,      \* the scheduler thread: its loop and the last job it ran
    cache,          \* APIClient.cache: url -> (time, data)
    callers,        \* the _make_request call of each thread, and where it stands
    fetches,        \* the upstream requests of the APIClient, in the order they began
    wn_cache,       \* WaterNeuronClient.cache: its "exchange_rate" entry, if any
    wn_call,        \* the last get_exchange_rate call and what it did
    users,          \* table users: sequence of rows, in rowid order
    registration,   \* the last add_user call and how it ended
    deliveries,     \* the alert ids of the sends the bot reported as successful
    op              \* the last operation run, with its arguments and what it did

vars == <<now, price_history, next_id, user_alerts, alert_log, last_alerts,
          telegram_bot, icpswap_response, kongswap_response, DIRECT_STAKING_RATE,
          arbitrage, outbox, running, scheduler, cache, callers, fetches,
          wn_cache, wn_call, users, registration, deliveries, op>>

\* The upstream sources, which no action of the program changes
upstream == <<icpswap_response, kongswap_response>>

\* The arbitrage client and its last call
arbitrage_client == <<DIRECT_STAKING_RATE, arbitrage>>

\* The messages sent and the scheduler thread of the application
application == <<outbox, running, scheduler>>

\* The caches of the two HTTP clients and the calls that use them
clients == <<cache, callers, fetches, wn_cache, wn_call>>

\* The users table and the last registration
registry == <<users, registration>>

----------------------------------------------------------------------------
(* Bounds of the model *)

MaxShortTicks == 2
MaxDays == 1
MaxRows == 2
MaxAlerts == 2
MaxBatch == 2

----------------------------------------------------------------------------
(* Program constants *)

alert_cooldown == 300
CleanupDays == 30
AlertWindowHours == 24

SecondsPerHour == 60 * 60
SecondsPerDay == 24 * SecondsPerHour

----------------------------------------------------------------------------
(* Input domains *)

Pairs == {"ICP/NICP", "ICP/CKUSDC"}
Prices == {0, 100}

\* The instants at which the model looks at the clock: after a number of
\* half cooldown windows, and after a number of whole days
Times ==
    {k * (alert_cooldown \div 2) : k \in 0..MaxShortTicks}
        \cup {j * SecondsPerDay : j \in 0..MaxDays}

\* The instants of the price history model: the same, and again from the
\* retention period of the daily sweep on
StoreTimes ==
    Times \cup {CleanupDays * SecondsPerDay + k * (alert_cooldown \div 2) :
                   k \in 0..MaxShortTicks}

\* The /setalert commands of the model: user id, pair, alert type, threshold
AlertChoices ==
    { <<1, "ICP/NICP", "price_up", 10>>,
      <<1, "ICP/NICP", "price_down", 0>>,
      <<2, "ICP/NICP", "price_up", 0>>,
      <<2, "ICP/CKUSDC", "volume_spike", 0>> }
StoreAlertChoices == { <<1, "ICP/NICP", "price_up", 10>> }
Days == {0, 1}
Hours == {1, AlertWindowHours}
Outcomes == {"ok", "send_failed", "raise"}

\* Python's None
None == [none |-> TRUE, num |-> 0, den |-> 1]

\* A percent change as the exact rational num/den
Ratio(n, d) == [none |-> FALSE, num |-> n, den |-> d]

\* Python truthiness of an Optional[float]: None and 0.0 are falsy
Truthy(x) == ~x.none /\ x.num # 0

\* x >= t and x <= t for a rational x = num/den, den # 0, and an integer t
RatioGe(x, t) == IF x.den > 0 THEN x.num >= t * x.den ELSE x.num <= t * x.den
RatioLe(x, t) == IF x.den > 0 THEN x.num <= t * x.den ELSE x.num >= t * x.den

Range(s) == {s[i] : i \in 1..Len(s)}

----------------------------------------------------------------------------
(* Database: price_history *)

\* INSERT INTO price_history: a new row stamped CURRENT_TIMESTAMP
add_price_data(rows, id, pair, price) ==
    Append(rows, [id |-> id, pair |-> pair, price |-> price, timestamp |-> now])

\* The rows of a pair, as a set
RowsOf(pair) == {r \in Range(price_history) : r.pair = pair}

\* ORDER BY timestamp; rows with one timestamp come in rowid order (the scan
\* of idx_price_history_pair_timestamp)
Before(r, s) ==
    r.timestamp < s.timestamp \/ (r.timestamp = s.timestamp /\ r.id < s.id)

First(rows) == CHOOSE r \in rows : \A s \in rows : s = r \/ Before(r, s)
Last(rows) == CHOOSE r \in rows : \A s \in rows : s = r \/ Before(s, r)

\* WHERE pair = ? AND timestamp >= datetime('now', '-{hours} hours')
InWindow(pair, hours) ==
    {r \in RowsOf(pair) : r.timestamp >= now - hours * SecondsPerHour}

\* SELECT * ... WHERE pair = ? ORDER BY timestamp DESC LIMIT 1 (a set of 0 or 1 rows)
get_latest_price(pair) ==
    IF RowsOf(pair) = {} THEN {} ELSE {Last(RowsOf(pair))}

get_price_change(pair, hours) ==
    IF InWindow(pair, hours) = {} THEN None
    ELSE IF get_latest_price(pair) = {} THEN None
    ELSE LET old_price == First(InWindow(pair, hours)).price
             current_price == (CHOOSE r \in get_latest_price(pair) : TRUE).price
         IN  IF old_price = 0 THEN None
             ELSE Ratio((current_price - old_price) * 100, old_price)

\* A sweep that also takes the rows exactly days days old (<= for <)
cleanup_old_data_inclusive(rows, days) ==
    SelectSeq(rows, LAMBDA r : ~(r.timestamp <= now - days * SecondsPerDay))

\* DELETE FROM price_history WHERE timestamp < datetime('now', '-{days} days')
cleanup_old_data(rows, days) ==
    SelectSeq(rows, LAMBDA r : ~(r.timestamp < now - days * SecondsPerDay))

----------------------------------------------------------------------------
(* Database: user_alerts and alert_log *)

\* INSERT INTO user_alerts: is_active defaults to 1, trigger_count to 0,
\* last_triggered to NULL (the empty set; {t} is the timestamp t)
add_user_alert(alerts, user_id, pair, alert_type, threshold) ==
    Append(alerts, [id |-> Len(alerts) + 1, user_id |-> user_id, pair |-> pair,
                    alert_type |-> alert_type, threshold |-> threshold,
                    is_active |-> TRUE, last_triggered |-> {},
                    trigger_count |-> 0])

\* SELECT ua.*, u.telegram_id ... WHERE ua.is_active = 1 AND u.is_active = 1
get_all_active_alerts(alerts) == SelectSeq(alerts, LAMBDA a : a.is_active)

\* The tables and the cooldown map an alert check works on
Tables(st) ==
    [user_alerts |-> st.user_alerts, alert_log |-> st.alert_log,
     last_alerts |-> st.last_alerts]

\* The step of process_alert for the alert took st to next: it is written
\* down with what it found and what it left
Step(st, alert_id, step, next) ==
    [next EXCEPT !.steps = Append(st.steps,
                                  [alert_id |-> alert_id, step |-> step,
                                   before |-> Tables(st), after |-> Tables(next)])]

\* A log_alert_sent without its UPDATE
log_alert_sent_insert_only(st, alert, price_change) ==
    [st EXCEPT
        !.alert_log = Append(@, [user_id |-> alert.user_id, alert_id |-> alert.id,
                                 pair |-> alert.pair, price_change |-> price_change,
                                 sent_at |-> now])]

\* One transaction: INSERT INTO alert_log, then UPDATE user_alerts SET
\* last_triggered = CURRENT_TIMESTAMP, trigger_count = trigger_count + 1 WHERE id = ?
log_alert_sent(st, alert, price_change) ==
    [st EXCEPT
        !.alert_log = Append(@, [user_id |-> alert.user_id, alert_id |-> alert.id,
                                 pair |-> alert.pair, price_change |-> price_change,
                                 sent_at |-> now]),
        !.user_alerts = [@ EXCEPT ![alert.id] =
                            [@ EXCEPT !.last_triggered = {now},
                                      !.trigger_count = @ + 1]]]

----------------------------------------------------------------------------
(* Alert evaluator *)

\* cooldown_key = f"{user_id}_{pair}_{alert_type}"
cooldown_key(alert) == <<alert.user_id, alert.pair, alert.alert_type>>

\* timedelta.seconds: the seconds field of a timedelta normalised to
\* (days, seconds, microseconds) with 0 <= seconds < 86400
timedelta_seconds(d) == d % SecondsPerDay

is_in_cooldown(la, key) ==
    IF key \notin DOMAIN la THEN FALSE
    ELSE timedelta_seconds(now - la[key]) < alert_cooldown

set_cooldown(la, key) ==
    [k \in DOMAIN la \cup {key} |-> IF k = key THEN now ELSE la[k]]

\* The stub: every path returns None
calculate_volume_change(pair) == None

\* Lines 74-92 of process_alert: should_trigger
should_trigger(alert) ==
    LET price_change_24h == get_price_change(alert.pair, AlertWindowHours)
        volume_change == calculate_volume_change(alert.pair)
    IN  CASE alert.alert_type = "price_up" ->
                Truthy(price_change_24h) /\ RatioGe(price_change_24h, alert.threshold)
          [] alert.alert_type = "price_down" ->
                Truthy(price_change_24h) /\ RatioLe(price_change_24h, 0 - alert.threshold)
          [] alert.alert_type = "volume_spike" ->
                Truthy(volume_change) /\ RatioGe(volume_change, alert.threshold)
          [] OTHER -> FALSE

\* TelegramBot.send_alert_to_user: True when the send went through, False when
\* it raised (the exception is caught and logged)
send_alert_to_user(outcome) == outcome = "ok"

\* A trigger_alert that writes the log row whatever the send reported
trigger_alert_always_logs(st, alert, outcome) ==
    IF telegram_bot
    THEN log_alert_sent(st, alert, get_price_change(alert.pair, AlertWindowHours))
    ELSE st

\* trigger_alert: the log row is written only after a send that reported success
trigger_alert(st, alert, outcome) ==
    IF telegram_bot
    THEN LET sent == Step(st, alert.id, "send_alert_to_user", st)
         IN  IF send_alert_to_user(outcome)
             THEN Step(sent, alert.id, "log_alert_sent",
                       log_alert_sent(sent, alert,
                                      get_price_change(alert.pair, AlertWindowHours)))
             ELSE sent
    ELSE st

\* self.set_cooldown(cooldown_key), as a step of process_alert
cooldown_set(st, alert) ==
    Step(st, alert.id, "set_cooldown",
         [st EXCEPT !.last_alerts = set_cooldown(@, cooldown_key(alert))])

\* The cooldown set before the alert is triggered
trigger_after_cooldown(st, alert, outcome) ==
    trigger_alert(cooldown_set(st, alert), alert, outcome)

\* The cooldown set only for a notification that was delivered
trigger_and_cooldown_if_delivered(st, alert, outcome) ==
    IF telegram_bot /\ send_alert_to_user(outcome)
    THEN cooldown_set(trigger_alert(st, alert, outcome), alert)
    ELSE trigger_alert(st, alert, outcome)

\* Lines 95-96 of process_alert: await self.trigger_alert(...), then
\* self.set_cooldown(cooldown_key), whatever trigger_alert did
trigger_and_cooldown(st, alert, outcome) ==
    cooldown_set(trigger_alert(st, alert, outcome), alert)

\* An evaluator that looks for no price of the pair
has_current_price_whatever(alert, current_prices) == TRUE

\* pair in current_prices
has_current_price(alert, current_prices) == alert.pair \in current_prices

\* What one call of process_alert did.  outcome is "none" when the call
\* ended before the point where the outcome is decided.
Eval(alert, outcome, present, cooldown, elapsed, fired) ==
    [alert_id |-> alert.id, outcome |-> outcome, present |-> present,
     cooldown |-> cooldown, elapsed |-> elapsed, fired |-> fired,
     attempted |-> fired /\ telegram_bot,
     delivered |-> fired /\ telegram_bot /\ send_alert_to_user(outcome)]

\* Seconds since the key last fired, {} when it never did
Elapsed(la, key) == IF key \in DOMAIN la THEN {now - la[key]} ELSE {}

\* process_alert.  outcome "raise": building the alert message (lines 81, 86,
\* 92) raises; the except clause of lines 100-101 logs it and the call returns.
process_alert(st, alert, current_prices, outcome) ==
    LET key == cooldown_key(alert)
        log(o, present, cooldown, fired) ==
            Append(st.evals, Eval(alert, o, present, cooldown,
                                  Elapsed(st.last_alerts, key), fired))
        read == Step(st, alert.id, "get_price_change", st)
    IN  IF ~has_current_price(alert, current_prices)
        THEN [st EXCEPT !.evals = log("none", FALSE, FALSE, FALSE)]
        ELSE IF is_in_cooldown(st.last_alerts, key)
        THEN [st EXCEPT !.evals = log("none", TRUE, TRUE, FALSE)]
        ELSE IF ~should_trigger(alert)
        THEN [read EXCEPT !.evals = log("none", TRUE, FALSE, FALSE)]
        ELSE IF outcome = "raise"
        THEN [read EXCEPT !.evals = log(outcome, TRUE, FALSE, FALSE)]
        ELSE [trigger_and_cooldown(read, alert, outcome) EXCEPT
                 !.evals = log(outcome, TRUE, FALSE, TRUE)]

\* A process_alert without its except clause
process_alert_lets_through == FALSE

\* The try/except of process_alert (lines 50 and 100-101) catches every
\* Exception raised while one alert is processed
process_alert_catches == TRUE

\* The loop of check_all_alerts over the active alerts; an exception that
\* left process_alert would end the loop in the except clause of line 45
RECURSIVE run_alerts(_, _, _, _)
run_alerts(st, alerts, current_prices, outcomes) ==
    IF alerts = <<>> THEN st
    ELSE LET a == Head(alerts)
             next == process_alert(st, a, current_prices, outcomes[a.id])
             raised == next.evals[Len(next.evals)].outcome = "raise"
         IN  IF raised /\ ~process_alert_catches THEN next
             ELSE run_alerts(next, Tail(alerts), current_prices, outcomes)

----------------------------------------------------------------------------
(* Price sources: JSON values and the upstream responses *)

\* A JSON field read with item.get(key, 0): absent, a number, a string that
\* is not a number, or null
Missing == [kind |-> "missing", v |-> 0]
Num(n) == [kind |-> "num", v |-> n]
Str == [kind |-> "str", v |-> 0]
Null == [kind |-> "null", v |-> 0]

\* float(item.get(key, 0)): the default 0 for an absent key, ValueError for
\* a string that is not a number, TypeError for null
float(x) ==
    CASE x.kind = "missing" -> [error |-> "none", val |-> 0]
      [] x.kind = "num" -> [error |-> "none", val |-> x.v]
      [] x.kind = "str" -> [error |-> "ValueError", val |-> 0]
      [] x.kind = "null" -> [error |-> "TypeError", val |-> 0]

\* except (ValueError, TypeError): continue
Skips(casts) == \E c \in casts : c.error \in {"ValueError", "TypeError"}

\* Amounts of money and prices are kept in hundredths
Hundredths(x) == x * 100

min(a, b) == IF a < b THEN a ELSE b

\* str.upper on the currency symbols of the model
upper(s) ==
    CASE s = "nICP" -> "NICP"
      [] s = "ckUSDC" -> "CKUSDC"
      [] s = "ckUSDT" -> "CKUSDT"
      [] s = "ckBTC" -> "CKBTC"
      [] s = "ckETH" -> "CKETH"
      [] OTHER -> s

\* f"{base}/{target}" is the pair <<base, target>>; None is <<>>
PairName(base, target) == <<base, target>>
NoPair == <<>>

\* A dict that keeps the entry a key got first
put_keeps_first(d, entry) ==
    IF \E i \in 1..Len(d) : d[i].pair = entry.pair THEN d ELSE Append(d, entry)

\* A dict keyed by pair name, in insertion order: d[key] = entry
put(d, entry) ==
    IF \E i \in 1..Len(d) : d[i].pair = entry.pair
    THEN [i \in 1..Len(d) |-> IF d[i].pair = entry.pair THEN entry ELSE d[i]]
    ELSE Append(d, entry)

\* The ways a fetch fails
Failures == {"timeout", "connection_error", "http_error", "invalid_json"}

Response(kind, data) == [kind |-> kind, data |-> data]
Failed(response) == response.kind \in Failures

\* Sequences of at most n elements of pool
Batches(pool, n) == UNION {[1..k -> pool] : k \in 0..n}

\* An ICPSwap ticker; ticker_name tells whether the key is there
IcpswapItem(base, target, volume_usd, liquidity, price) ==
    [ticker_name |-> TRUE, base_currency |-> base, target_currency |-> target,
     base_volume_24H |-> Missing, target_volume_24H |-> Missing,
     volume_usd_24H |-> volume_usd, liquidity_in_usd |-> liquidity,
     last_price |-> price, base_volume |-> Missing, target_volume |-> Missing]

IcpswapPool ==
    { IcpswapItem("ICP", "ckUSDC", Num(1000), Num(0), Num(5)),
      IcpswapItem("nICP", "ICP", Num(100), Num(60000), Num(1)),
      IcpswapItem("ICP", "ckUSDC", Num(100), Num(100), Num(5)),
      IcpswapItem("ICP", "ckUSDC", Num(1000), Num(0), Num(0)),
      IcpswapItem("ICP", "ckUSDT", Num(1000), Num(0), Missing),
      IcpswapItem("ICP", "ckUSDT", Num(1000), Num(0), Num(0 - 1)),
      IcpswapItem("ICP", "nICP", Str, Num(60000), Num(1)),
      IcpswapItem("ICP", "nICP", Num(1000), Num(0), Null),
      IcpswapItem("ckBTC", "ICP", Num(1000), Num(0), Num(5)),
      IcpswapItem("ckBTC", "ckETH", Num(1000), Num(0), Num(5)) }

\* Canister ids of the model: ICP, ckUSDT and nICP, and two the map lacks
IcpCanister == "ryjl3-tyaaa-aaaaa-aaaba-cai"
CkusdtCanister == "cngnf-vqaaa-aaaar-qag4q-cai"
NicpCanister == "buwm7-7yaaa-aaaar-qagva-cai"
UnknownCanister == "aaaaa-bbbbb-ccccc-ddddd-cai"
OtherUnknownCanister == "zzzzz-yyyyy-xxxxx-wwwww-cai"

\* Two canister ids that the map resolves to the same symbol, SONIC
SonicCanister == "lrtnw-paaaa-aaaam-qcwda-cai"
OtherSonicCanister == "lrtnw-paaaa-aaaaq-aadfa-cai"

\* Identifiers the map lacks, of 21, of 20 and of 3 characters
LongIdentifier == "abcdefghijklmnopqrstu"
ShortIdentifier == "abcdefghijklmnopqrst"
TinyIdentifier == "xyz"

\* The characters of the strings that the model slices or builds
Group(c, n) == [i \in 1..n |-> c]
Letters ==
    <<"a", "b", "c", "d", "e", "f", "g", "h", "i", "j", "k", "l", "m", "n", "o", "p",
      "q", "r", "s", "t", "u", "v", "w", "x", "y", "z">>
Ellipsis == Group(".", 3)
Spelling ==
    (UnknownCanister :> Group("a", 5) \o <<"-">> \o Group("b", 5) \o <<"-">>
                            \o Group("c", 5) \o <<"-">> \o Group("d", 5)
                            \o <<"-", "c", "a", "i">>)
    @@ (OtherUnknownCanister :> Group("z", 5) \o <<"-">> \o Group("y", 5) \o <<"-">>
                                  \o Group("x", 5) \o <<"-">> \o Group("w", 5)
                                  \o <<"-", "c", "a", "i">>)
    @@ (LongIdentifier :> SubSeq(Letters, 1, 21))
    @@ (ShortIdentifier :> SubSeq(Letters, 1, 20))
    @@ (TinyIdentifier :> SubSeq(Letters, 24, 26))
    @@ ("" :> <<>>)
    @@ ("aaaaa...cai" :> Group("a", 5) \o Ellipsis \o <<"c", "a", "i">>)
    @@ ("zzzzz...cai" :> Group("z", 5) \o Ellipsis \o <<"c", "a", "i">>)
    @@ ("abcde...stu" :> SubSeq(Letters, 1, 5) \o Ellipsis \o SubSeq(Letters, 19, 21))
    @@ ("abcdefgh..." :> SubSeq(Letters, 1, 8) \o Ellipsis)
    @@ ("xyz..." :> SubSeq(Letters, 24, 26) \o Ellipsis)
    @@ ("aaaaa-bb..." :> Group("a", 5) \o <<"-", "b", "b">> \o Ellipsis)
    @@ ("zzzzz-yy..." :> Group("z", 5) \o <<"-", "y", "y">> \o Ellipsis)
    @@ ("..." :> Ellipsis)

\* The string of the given characters
Spelled(chars) == CHOOSE t \in DOMAIN Spelling : Spelling[t] = chars

\* A KongSwap ticker of /api/coingecko/tickers
KongTicker(base, target, price, base_volume, target_volume) ==
    [base_currency |-> base, target_currency |-> target, last_price |-> price,
     base_volume |-> base_volume, target_volume |-> target_volume,
     liquidity_in_usd |-> Missing]

KongTickerPool ==
    { KongTicker(NicpCanister, IcpCanister, Num(1), Num(100), Num(100)),
      KongTicker(IcpCanister, CkusdtCanister, Num(5), Num(10), Num(50)),
      KongTicker(UnknownCanister, OtherUnknownCanister, Num(0), Num(20000), Num(30000)),
      KongTicker(UnknownCanister, OtherUnknownCanister, Num(2), Num(5000), Num(30000)),
      KongTicker(CkusdtCanister, IcpCanister, Str, Num(1000), Num(1000)),
      KongTicker(NicpCanister, IcpCanister, Num(0 - 2), Num(1000), Num(1000)),
      KongTicker("", IcpCanister, Num(1), Num(1000), Num(1000)),
      KongTicker(LongIdentifier, IcpCanister, Num(1), Num(100), Num(100)),
      KongTicker(CkusdtCanister, ShortIdentifier, Num(1), Num(200), Num(200)),
      KongTicker(TinyIdentifier, UnknownCanister, Num(1), Num(20000), Num(20000)),
      KongTicker(SonicCanister, IcpCanister, Num(1), Num(100), Num(100)),
      KongTicker(OtherSonicCanister, IcpCanister, Num(2), Num(100), Num(100)) }

\* A record of /api/coinmarketcap/summary; trading_pairs is base, the
\* separator ("_", "/" or neither: "") and target
KongSummary(base, sep, target, price, base_volume) ==
    [trading_pairs |-> [base |-> base, sep |-> sep, target |-> target],
     last_price |-> price, base_volume |-> base_volume, quote_volume |-> Missing]

KongSummaryPool ==
    { KongSummary("ICP", "_", "ckUSDT", Num(5), Num(200)),
      KongSummary("ICP", "/", "ckUSDT", Num(0), Num(150)),
      KongSummary("nICP", "_", "ICP", Num(1), Num(50)),
      KongSummary("ckBTC", "", "ckETH", Num(1), Num(200)),
      KongSummary("NICP", "_", "ICP", Num(3), Num(200)) }

\* A record of /api/dexscreener/pair
KongDexPair(base, quote, price_native, price_usd, volume, liquidity) ==
    [baseToken |-> base, quoteToken |-> quote, priceNative |-> price_native,
     priceUsd |-> price_usd, volume_h24 |-> volume, liquidity_usd |-> liquidity]

KongDexPool ==
    { KongDexPair("ICP", "ckUSDT", Num(1), Num(5), Num(200), Num(1000)),
      KongDexPair("ICP", "ckUSDT", Num(0 - 1), Num(0), Num(200), Num(1000)),
      KongDexPair("nICP", "ICP", Num(1), Num(1), Num(50), Num(1000)),
      KongDexPair("ckBTC", "ckETH", Num(1), Num(1), Null, Num(1000)) }

IcpswapResponses ==
    {Response(k, <<>>) : k \in Failures}
        \cup {Response("ok", d) : d \in Batches(IcpswapPool, MaxBatch)}

\* KongSwap answers with its tickers, or, the tickers endpoint refusing,
\* with its summary and then the dexscreener record of each pair; "summary"
\* is the case where no dexscreener record could be had
KongswapResponses ==
    {Response(k, <<>>) : k \in Failures}
        \cup {Response("tickers", d) : d \in Batches(KongTickerPool, MaxBatch)}
        \cup {Response("summary", d) : d \in Batches(KongSummaryPool, MaxBatch)}
        \cup {Response("dexscreener", d) : d \in Batches(KongDexPool, MaxBatch) \ {<<>>}}

----------------------------------------------------------------------------
(* Price sources: APIClient *)

\* A _make_request whose failures leave it as exceptions
_make_request_unguarded(response) ==
    IF Failed(response) THEN [raised |-> TRUE, data |-> <<>>]
    ELSE [raised |-> FALSE, data |-> response.data]

\* _make_request: the decoded JSON, or None (the empty data here) when the
\* request fails; every except clause returns None, so nothing is raised
_make_request(response) ==
    IF Failed(response) THEN [raised |-> FALSE, data |-> <<>>]
    ELSE [raised |-> FALSE, data |-> response.data]

\* get_icpswap_data: the list, or None for None and for an empty list
get_icpswap_data(response) == _make_request(response)

target_pairs ==
    {PairName("ICP", "nICP"), PairName("ICP", "USD"), PairName("ICP", "USDT"),
     PairName("ICP", "USDC")}

\* any(target in pair_name for target in ['NICP', 'USD', 'USDT', 'USDC']),
\* on the symbols of the model
ContainsTarget(pair_name) ==
    \E i \in 1..Len(pair_name) : pair_name[i] \in {"NICP", "CKUSDC", "CKUSDT"}

has_good_volume(volume_24h_usd) == volume_24h_usd > Hundredths(500)

\* A has_decent_activity that does not look at the liquidity
has_decent_activity_any_liquidity(volume_24h_usd, liquidity_usd) ==
    volume_24h_usd > Hundredths(50)

has_decent_activity(volume_24h_usd, liquidity_usd) ==
    volume_24h_usd > Hundredths(50) /\ liquidity_usd > Hundredths(50000)

Entry(pair_name, price, volume_24h_usd, liquidity_usd, source, raw_data) ==
    [pair |-> pair_name, price |-> price, volume_24h_usd |-> volume_24h_usd,
     liquidity_usd |-> liquidity_usd, source |-> source, raw_data |-> raw_data]

\* One turn of the loop of find_icp_pairs: the dict after item
find_icp_pair(found_pairs, item) ==
    LET base == upper(item.base_currency)
        target == upper(item.target_currency)
        pair_name == IF base = "ICP" THEN PairName("ICP", target)
                     ELSE IF target = "ICP" THEN PairName(base, "ICP")
                     ELSE NoPair
        volume_24h_usd == Hundredths(float(item.volume_usd_24H).val)
        liquidity_usd == Hundredths(float(item.liquidity_in_usd).val)
    IN  IF ~item.ticker_name THEN found_pairs
        ELSE IF pair_name = NoPair THEN found_pairs
        ELSE IF ~(pair_name \in target_pairs \/ ContainsTarget(pair_name))
        THEN found_pairs
        ELSE IF Skips({float(item.base_volume_24H), float(item.target_volume_24H),
                       float(item.volume_usd_24H), float(item.liquidity_in_usd)})
        THEN found_pairs
        ELSE IF ~(has_good_volume(volume_24h_usd)
                    \/ has_decent_activity(volume_24h_usd, liquidity_usd))
        THEN found_pairs
        ELSE IF Skips({float(item.last_price), float(item.base_volume),
                       float(item.target_volume)})
        THEN found_pairs
        ELSE put(found_pairs,
                 Entry(pair_name, Hundredths(float(item.last_price).val),
                       volume_24h_usd, liquidity_usd, "icpswap", item))

RECURSIVE find_icp_pairs_from(_, _)
find_icp_pairs_from(found_pairs, data) ==
    IF data = <<>> THEN found_pairs
    ELSE find_icp_pairs_from(find_icp_pair(found_pairs, Head(data)), Tail(data))

find_icp_pairs(data) == find_icp_pairs_from(<<>>, data)

\* The entries of canister_to_symbol for the canisters of the model
canister_to_symbol ==
    [c \in {IcpCanister, CkusdtCanister, NicpCanister, SonicCanister,
            OtherSonicCanister} |->
        CASE c = IcpCanister -> "ICP"
          [] c = CkusdtCanister -> "ckUSDT"
          [] c = NicpCanister -> "nICP"
          [] c \in {SonicCanister, OtherSonicCanister} -> "SONIC"]

\* A placeholder that is always the first 8 characters and "..."
get_readable_symbol_first_eight(canister_id) ==
    IF canister_id \in DOMAIN canister_to_symbol THEN canister_to_symbol[canister_id]
    ELSE LET chars == Spelling[canister_id]
         IN  Spelled(SubSeq(chars, 1, min(8, Len(chars))) \o Ellipsis)

\* get_readable_symbol: canister_id[:5] + "..." + canister_id[-3:] for more
\* than 20 characters, canister_id[:8] + "..." otherwise
get_readable_symbol(canister_id) ==
    IF canister_id \in DOMAIN canister_to_symbol THEN canister_to_symbol[canister_id]
    ELSE LET chars == Spelling[canister_id]
         IN  IF Len(chars) > 20
             THEN Spelled(SubSeq(chars, 1, 5) \o Ellipsis
                              \o SubSeq(chars, Len(chars) - 2, Len(chars)))
             ELSE Spelled(SubSeq(chars, 1, min(8, Len(chars))) \o Ellipsis)

\* Those of known_symbols that the model's canisters can resolve to
known_symbols == {"ICP", "ckUSDT", "ckUSDC", "ckBTC", "ckETH", "nICP", "NICP"}

\* 4.78 and 1.0, in hundredths
icp_price == 478
usdt_price == 100

Formatted(pair_name, price, volume_24h, liquidity, raw_data) ==
    [pair |-> pair_name, price |-> price, volume_24h |-> volume_24h,
     liquidity |-> liquidity, source |-> "KongSwap", raw_data |-> raw_data]

\* The least daily volume of a KongSwap pair: if volume < 100: continue
has_meaningful_volume(volume_24h) == ~(volume_24h < Hundredths(100))

\* Every pair with a volume is let through
is_admitted_whatever(base_symbol, target_symbol, volume_24h_usd) == TRUE

\* has_known_token or is_high_volume
is_admitted(base_symbol, target_symbol, volume_24h_usd) ==
    LET has_known_token == base_symbol \in known_symbols \/ target_symbol \in known_symbols
        is_high_volume == volume_24h_usd > Hundredths(10000)
    IN  has_known_token \/ is_high_volume

\* One turn of the loop of _format_kongswap_ticker_data
format_kongswap_ticker(formatted_pairs, ticker) ==
    LET base_canister == ticker.base_currency
        target_canister == ticker.target_currency
        base_symbol == get_readable_symbol(base_canister)
        target_symbol == get_readable_symbol(target_canister)
        base_volume == float(ticker.base_volume).val
        target_volume == float(ticker.target_volume).val
        volume_24h_usd ==
            IF target_canister = IcpCanister THEN target_volume * icp_price
            ELSE IF base_canister = IcpCanister THEN base_volume * icp_price
            ELSE IF target_canister = CkusdtCanister THEN target_volume * usdt_price
            ELSE IF base_canister = CkusdtCanister THEN base_volume * usdt_price
            ELSE Hundredths(min(base_volume, target_volume))
    IN  IF base_canister = "" \/ target_canister = "" THEN formatted_pairs
        ELSE IF Skips({float(ticker.last_price), float(ticker.base_volume),
                       float(ticker.target_volume), float(ticker.liquidity_in_usd)})
        THEN formatted_pairs
        ELSE IF ~is_admitted(base_symbol, target_symbol, volume_24h_usd)
        THEN formatted_pairs
        ELSE IF ~has_meaningful_volume(volume_24h_usd) THEN formatted_pairs
        ELSE Append(formatted_pairs,
                    Formatted(PairName(base_symbol, target_symbol),
                              Hundredths(float(ticker.last_price).val),
                              volume_24h_usd,
                              Hundredths(float(ticker.liquidity_in_usd).val), ticker))

\* 'ICP' in pair_name.upper(), on the symbols of the model
IsIcpPair(pair_name) ==
    \E i \in 1..Len(pair_name) : upper(pair_name[i]) \in {"ICP", "NICP"}

\* One turn of the loop of _format_kongswap_summary_data
format_kongswap_summary(formatted_pairs, summary) ==
    LET tp == summary.trading_pairs
        pair_name == PairName(tp.base, tp.target)
        volume_24h == Hundredths(float(summary.base_volume).val)
    IN  IF tp.sep \notin {"_", "/"} THEN formatted_pairs
        ELSE IF ~IsIcpPair(pair_name) THEN formatted_pairs
        ELSE IF Skips({float(summary.last_price), float(summary.base_volume),
                       float(summary.quote_volume)})
        THEN formatted_pairs
        ELSE IF ~has_meaningful_volume(volume_24h) THEN formatted_pairs
        ELSE Append(formatted_pairs,
                    Formatted(pair_name, Hundredths(float(summary.last_price).val),
                              volume_24h, 0, summary))

\* One turn of the loop of _format_kongswap_dexscreener_data
format_kongswap_dexscreener(formatted_pairs, pair_data) ==
    LET pair_name == PairName(pair_data.baseToken, pair_data.quoteToken)
        price_native == Hundredths(float(pair_data.priceNative).val)
        price_usd == Hundredths(float(pair_data.priceUsd).val)
        volume_24h == Hundredths(float(pair_data.volume_h24).val)
        last_price == IF price_usd > 0 THEN price_usd ELSE price_native
    IN  IF pair_data.baseToken = "" \/ pair_data.quoteToken = "" THEN formatted_pairs
        ELSE IF ~IsIcpPair(pair_name) THEN formatted_pairs
        ELSE IF Skips({float(pair_data.priceNative), float(pair_data.priceUsd),
                       float(pair_data.volume_h24), float(pair_data.liquidity_usd)})
        THEN formatted_pairs
        ELSE IF ~has_meaningful_volume(volume_24h) THEN formatted_pairs
        ELSE Append(formatted_pairs,
                    Formatted(pair_name, last_price, volume_24h,
                              Hundredths(float(pair_data.liquidity_usd).val), pair_data))

RECURSIVE format_tickers_from(_, _)
format_tickers_from(formatted_pairs, ticker_data) ==
    IF ticker_data = <<>> THEN formatted_pairs
    ELSE format_tickers_from(format_kongswap_ticker(formatted_pairs, Head(ticker_data)),
                             Tail(ticker_data))

RECURSIVE format_summaries_from(_, _)
format_summaries_from(formatted_pairs, summary_data) ==
    IF summary_data = <<>> THEN formatted_pairs
    ELSE format_summaries_from(format_kongswap_summary(formatted_pairs, Head(summary_data)),
                               Tail(summary_data))

RECURSIVE format_dexscreener_from(_, _)
format_dexscreener_from(formatted_pairs, dexscreener_data) ==
    IF dexscreener_data = <<>> THEN formatted_pairs
    ELSE format_dexscreener_from(
             format_kongswap_dexscreener(formatted_pairs, Head(dexscreener_data)),
             Tail(dexscreener_data))

_format_kongswap_ticker_data(ticker_data) == format_tickers_from(<<>>, ticker_data)
_format_kongswap_summary_data(summary_data) == format_summaries_from(<<>>, summary_data)
_format_kongswap_dexscreener_data(dexscreener_data) ==
    format_dexscreener_from(<<>>, dexscreener_data)

\* fetch_kongswap_data: the formatted pairs, [] when anything fails
fetch_kongswap_data(response) ==
    CASE response.kind = "tickers" -> _format_kongswap_ticker_data(response.data)
      [] response.kind = "dexscreener" -> _format_kongswap_dexscreener_data(response.data)
      [] response.kind = "summary" -> _format_kongswap_summary_data(response.data)
      [] OTHER -> <<>>

\* The loop of get_icp_prices over the KongSwap pairs
RECURSIVE add_kongswap_pairs(_, _)
add_kongswap_pairs(all_pairs, kongswap_data) ==
    IF kongswap_data = <<>> THEN all_pairs
    ELSE LET pair_data == Head(kongswap_data)
         IN  add_kongswap_pairs(
                 put(all_pairs, Entry(pair_data.pair, pair_data.price,
                                      pair_data.volume_24h, pair_data.liquidity,
                                      "kongswap", pair_data.raw_data)),
                 Tail(kongswap_data))

\* get_icp_prices: raised tells whether an exception leaves the call
get_icp_prices(icpswap, kongswap) ==
    LET icpswap_data == get_icpswap_data(icpswap)
        icpswap_pairs == find_icp_pairs(icpswap_data.data)
    IN  IF icpswap_data.raised THEN [raised |-> TRUE, all_pairs |-> <<>>]
        ELSE [raised |-> FALSE,
              all_pairs |-> add_kongswap_pairs(icpswap_pairs, fetch_kongswap_data(kongswap))]

----------------------------------------------------------------------------
(* NICPArbitrageClient: the floats of the calculation as exact fractions.   *)
(* The squares of the annualized return do not fit the integers of the      *)
(* checker, so numerators and denominators are sequences of digits to the   *)
(* base Base, least significant first, without leading zeros.               *)

Base == 100 * 100

RECURSIVE Limbs(_)
Limbs(n) == IF n = 0 THEN <<>> ELSE <<n % Base>> \o Limbs(n \div Base)

RECURSIVE MagNorm(_)
MagNorm(a) ==
    IF a = <<>> THEN <<>>
    ELSE IF a[Len(a)] = 0 THEN MagNorm(SubSeq(a, 1, Len(a) - 1))
    ELSE a

Rest(a) == IF a = <<>> THEN <<>> ELSE Tail(a)
Digit(a) == IF a = <<>> THEN 0 ELSE Head(a)

RECURSIVE MagAddC(_, _, _)
MagAddC(a, b, carry) ==
    IF a = <<>> /\ b = <<>> THEN (IF carry = 0 THEN <<>> ELSE <<carry>>)
    ELSE LET s == Digit(a) + Digit(b) + carry
         IN  <<s % Base>> \o MagAddC(Rest(a), Rest(b), s \div Base)

MagAdd(a, b) == MagAddC(a, b, 0)

\* a < b for magnitudes
MagLess(a, b) ==
    IF Len(a) # Len(b) THEN Len(a) < Len(b)
    ELSE \E i \in 1..Len(a) :
            /\ a[i] < b[i]
            /\ \A j \in (i + 1)..Len(a) : a[j] = b[j]

\* a - b for magnitudes with a >= b
RECURSIVE MagSubB(_, _, _)
MagSubB(a, b, borrow) ==
    IF a = <<>> THEN <<>>
    ELSE LET d == Head(a) - Digit(b) - borrow
         IN  <<IF d < 0 THEN d + Base ELSE d>>
                 \o MagSubB(Tail(a), Rest(b), IF d < 0 THEN 1 ELSE 0)

MagSub(a, b) == MagNorm(MagSubB(a, b, 0))

RECURSIVE MagMulDigit(_, _, _)
MagMulDigit(a, d, carry) ==
    IF a = <<>> THEN (IF carry = 0 THEN <<>> ELSE <<carry>>)
    ELSE LET p == Head(a) * d + carry
         IN  <<p % Base>> \o MagMulDigit(Tail(a), d, p \div Base)

RECURSIVE MagMul(_, _)
MagMul(a, b) ==
    IF a = <<>> \/ b = <<>> THEN <<>>
    ELSE LET high == MagMul(a, Tail(b))
         IN  MagNorm(MagAdd(MagMulDigit(a, Head(b), 0),
                            IF high = <<>> THEN <<>> ELSE <<0>> \o high))

\* Signed integers: a sign and a magnitude; zero has no sign
Big(n) == [neg |-> n < 0, mag |-> Limbs(IF n < 0 THEN -n ELSE n)]
Signed(neg, mag) == [neg |-> neg /\ mag # <<>>, mag |-> mag]

BigAdd(x, y) ==
    IF x.neg = y.neg THEN Signed(x.neg, MagAdd(x.mag, y.mag))
    ELSE IF MagLess(x.mag, y.mag) THEN Signed(y.neg, MagSub(y.mag, x.mag))
    ELSE Signed(x.neg, MagSub(x.mag, y.mag))

BigNeg(x) == Signed(~x.neg, x.mag)
BigMul(x, y) == Signed(x.neg # y.neg, MagMul(x.mag, y.mag))

BigLess(x, y) ==
    IF x.neg # y.neg THEN x.neg
    ELSE IF x.neg THEN MagLess(y.mag, x.mag)
    ELSE MagLess(x.mag, y.mag)

\* Fractions num/den with den > 0, not reduced
Frac(n, d) == [num |-> Big(n), den |-> Limbs(d)]
Whole(n) == Frac(n, 1)
Scaled(x, den) == BigMul(x, Signed(FALSE, den))

FracAdd(x, y) ==
    [num |-> BigAdd(Scaled(x.num, y.den), Scaled(y.num, x.den)),
     den |-> MagMul(x.den, y.den)]
FracSub(x, y) ==
    [num |-> BigAdd(Scaled(x.num, y.den), BigNeg(Scaled(y.num, x.den))),
     den |-> MagMul(x.den, y.den)]
FracMul(x, y) ==
    [num |-> BigMul(x.num, y.num), den |-> MagMul(x.den, y.den)]
\* x / y for y # 0
FracDiv(x, y) ==
    [num |-> Signed(x.num.neg # y.num.neg, MagMul(x.num.mag, y.den)),
     den |-> MagMul(x.den, y.num.mag)]

FracLess(x, y) == BigLess(Scaled(x.num, y.den), Scaled(y.num, x.den))
FracEq(x, y) == Scaled(x.num, y.den) = Scaled(y.num, x.den)
FracLe(x, y) == FracLess(x, y) \/ FracEq(x, y)

\* x ** n for a whole n >= 0
RECURSIVE FracPow(_, _)
FracPow(x, n) == IF n = 0 THEN Whole(1) ELSE FracMul(x, FracPow(x, n - 1))

\* Prices to three decimals and rates to four, as the sources quote them
Thousandths(n) == Frac(n, 1000)
TenThousandths(n) == Frac(n, 10000)

----------------------------------------------------------------------------
(* NICPArbitrageClient *)

\* The waterneuron_data argument: None, or a dict with its 'success' and
\* 'nicp_to_icp_rate' entries (a rate is a number of ten-thousandths)
NoData == [present |-> FALSE, success |-> FALSE, nicp_to_icp_rate |-> Missing]
Data(success, rate) == [present |-> TRUE, success |-> success, nicp_to_icp_rate |-> rate]

\* What WaterNeuronClient.get_exchange_rate returns: the parsed answer or
\* the fallback response, both with the rate 0.9001
WaterneuronAnswers == {Data(TRUE, Num(9001)), Data(FALSE, Num(9001))}

\* The arguments of the model
RateFields == {Missing, Null, Str, Num(0), Num(8000), Num(9001), Num(10000)}
WaterneuronInputs == {NoData} \cup {Data(s, f) : s \in BOOLEAN, f \in RateFields}
PriceInputs == {-50, 0, 950, 979, 1000, 1050, 1058, 1059, 1250}

\* waterneuron_data.get('nicp_to_icp_rate') is truthy
RateGiven(field) == field.kind = "str" \/ (field.kind = "num" /\ field.v # 0)

\* waterneuron_data and waterneuron_data.get('success')
DataSucceeded(waterneuron_data) == waterneuron_data.present /\ waterneuron_data.success

\* ... and waterneuron_data.get('nicp_to_icp_rate')
UsesSuppliedRate(waterneuron_data) ==
    DataSucceeded(waterneuron_data) /\ RateGiven(waterneuron_data.nicp_to_icp_rate)

DISSOLUTION_MONTHS == 6

future_icp_per_nicp(current_staking_rate) == FracDiv(Whole(1), current_staking_rate)

profit_per_nicp(future, cost_per_nicp) == FracSub(future, cost_per_nicp)

\* The profit measured against what is received, not against what is paid
profit_percentage_of_future(future, cost_per_nicp) ==
    FracMul(FracDiv(profit_per_nicp(future, cost_per_nicp), future), Whole(100))

profit_percentage(future, cost_per_nicp) ==
    FracMul(FracDiv(profit_per_nicp(future, cost_per_nicp), cost_per_nicp), Whole(100))

\* 12 / DISSOLUTION_MONTHS, the whole number 2.0
periods_per_year == 12 \div DISSOLUTION_MONTHS

\* The linear scale-up of the period return
annualized_return_linear(percentage) == FracMul(percentage, Whole(periods_per_year))

annualized_return(percentage) ==
    LET period_return_rate == FracDiv(percentage, Whole(100))
    IN  FracMul(FracSub(FracPow(FracAdd(Whole(1), period_return_rate), periods_per_year),
                        Whole(1)),
                Whole(100))

\* Viable as soon as there is a profit
is_viable_any_profit(percentage) == FracLess(Whole(0), percentage)

is_viable(percentage) == FracLess(Whole(5), percentage)

_get_arbitrage_recommendation(percentage) ==
    IF FracLe(Whole(20), percentage) THEN "EXCELLENT"
    ELSE IF FracLe(Whole(15), percentage) THEN "GREAT"
    ELSE IF FracLe(Whole(10), percentage) THEN "GOOD"
    ELSE IF FracLe(Whole(5), percentage) THEN "MODERATE"
    ELSE "POOR"

\* float(...) of the supplied rate raised
Raised == [raised |-> TRUE]

\* calculate_arbitrage_opportunity past the check of the price
opportunity(staking_rate, nicp_price_in_icp, waterneuron_data) ==
    LET supplied == float(waterneuron_data.nicp_to_icp_rate)
        current_staking_rate ==
            IF UsesSuppliedRate(waterneuron_data) THEN TenThousandths(supplied.val)
            ELSE staking_rate
        cost_per_nicp == Thousandths(nicp_price_in_icp)
        future == future_icp_per_nicp(current_staking_rate)
        percentage == profit_percentage(future, cost_per_nicp)
    IN  IF UsesSuppliedRate(waterneuron_data) /\ supplied.error # "none" THEN Raised
        ELSE [raised |-> FALSE,
              viable |-> is_viable(percentage),
              cost_per_nicp_icp |-> cost_per_nicp,
              future_icp_per_nicp |-> future,
              profit_per_nicp_icp |-> profit_per_nicp(future, cost_per_nicp),
              profit_percentage_6m |-> percentage,
              annualized_return |-> annualized_return(percentage),
              dissolution_months |-> DISSOLUTION_MONTHS,
              direct_staking_rate |-> current_staking_rate,
              recommendation |-> _get_arbitrage_recommendation(percentage),
              waterneuron_source |-> DataSucceeded(waterneuron_data),
              note |-> IF DataSucceeded(waterneuron_data) THEN ""
                       ELSE "Using fallback exchange rate - WaterNeuron data unavailable"]

\* Without the check of the price: a price of 0 divides by zero
calculate_arbitrage_opportunity_unchecked(staking_rate, nicp_price_in_icp, waterneuron_data) ==
    IF nicp_price_in_icp = 0 THEN Raised
    ELSE opportunity(staking_rate, nicp_price_in_icp, waterneuron_data)

calculate_arbitrage_opportunity(staking_rate, nicp_price_in_icp, waterneuron_data) ==
    IF nicp_price_in_icp <= 0
    THEN [raised |-> FALSE, viable |-> FALSE, error |-> "Invalid nICP price"]
    ELSE opportunity(staking_rate, nicp_price_in_icp, waterneuron_data)

\* The rate get_waterneuron_exchange_rate leaves in DIRECT_STAKING_RATE
get_waterneuron_exchange_rate(staking_rate, waterneuron_data) ==
    IF UsesSuppliedRate(waterneuron_data)
    THEN TenThousandths(float(waterneuron_data.nicp_to_icp_rate).val)
    ELSE staking_rate

----------------------------------------------------------------------------
(* Notification texts.  A text is modelled by its length in characters, as  *)
(* Python's len counts them; a rendered number by the width of its digits.  *)

MaxListed == 80

\* One pair of a market update: the lengths of its name, of its price with
\* six decimals and of its volume with two, and of its signed 24 h change
\* with two decimals and a percent sign (0: get_price_change gave None or 0)
Listed(pair, price, price_change, volume) ==
    [pair |-> pair, price |-> price, price_change |-> price_change, volume |-> volume]

\* "ICP/nICP" at $0.979000 with volume $0.00, without and with a change "+1.50%"
ListedPairs == {Listed(8, 8, 0, 4), Listed(8, 8, 6, 4)}

\* The dicts get_icp_prices can hand to send_market_updates: n pairs with
\* names of one length, all quiet or all moving
Listings == {[i \in 1..n |-> price_data] : n \in 0..MaxListed, price_data \in ListedPairs}

\* The three lines send_market_updates writes for one pair
market_update_block(price_data) ==
    LET change_emoji == IF price_data.price_change = 0 THEN 2 ELSE 1
        change_text == IF price_data.price_change = 0 THEN 3 ELSE price_data.price_change
    IN  (7 + price_data.pair)
        + (3 + price_data.price + 1 + change_emoji + 1 + change_text + 1)
        + (11 + price_data.volume + 2)

RECURSIVE market_update_blocks(_)
market_update_blocks(current_prices) ==
    IF current_prices = <<>> THEN 0
    ELSE market_update_block(Head(current_prices))
         + market_update_blocks(Tail(current_prices))

\* The header, the blocks, the line of the time and the line of the bot
market_update_message(current_prices) ==
    27 + market_update_blocks(current_prices) + 22 + 42

\* The alert texts: the template, the pair in the title and in the hashtag
\* (there without its slash), the three numbers and the time of day
create_price_up_message(pair, current_price, price_change, threshold) ==
    141 + pair + price_change + current_price + threshold + 8 + (pair - 1)

create_price_down_message(pair, current_price, price_change, threshold) ==
    144 + pair + price_change + current_price + threshold + 8 + (pair - 1)

create_volume_spike_message(pair, current_price, volume_change, threshold) ==
    156 + pair + volume_change + current_price + threshold + 8 + (pair - 1)

\* "ICP/nICP" at 1.100000, changes 10.00 and 150.0, thresholds 10.0 and 100.0
AlertMessages ==
    {create_price_up_message(8, 8, 5, 4), create_price_down_message(8, 8, 5, 4),
     create_volume_spike_message(8, 8, 5, 5)}

\* One bot.send_message call: the chat, the length of the text it carries and
\* whether Telegram took it
send_message(chat_id, text, delivered) ==
    [chat_id |-> chat_id, text |-> text, delivered |-> delivered]

\* TelegramBot.send_channel_update and TelegramBot.send_alert_to_user: the
\* text goes into one send_message call as it is
send_channel_update(channel_id, message, delivered) ==
    <<send_message(channel_id, message, delivered)>>

\* AlertSystem.send_market_updates: nothing goes out without prices or without
\* a bot
send_market_updates(channel_id, current_prices, bot, delivered) ==
    IF current_prices = <<>> THEN <<>>
    ELSE IF bot
         THEN send_channel_update(channel_id, market_update_message(current_prices),
                                  delivered)
         ELSE <<>>

----------------------------------------------------------------------------
(* ICPMonitorApp: the scheduled jobs and the scheduler thread *)

MaxRuns == 12

Jobs == {"fetch_and_store_data", "run_alert_check", "send_market_update",
         "daily_cleanup", "health_check"}

\* What the body of a job does: it runs to its end, or a call in it (to a
\* source, to the store, to the bot) raises an Exception
Bodies == {"returns", "raises"}

\* The same jobs with run_alert_check letting its errors out
job_catches_but_alert_check == [job \in Jobs |-> job # "run_alert_check"]

\* Each job is one try block with "except Exception" around its whole body
job_catches == [job \in Jobs |-> TRUE]

\* run_scheduler has a try block with "except Exception" around run_pending
run_scheduler_catches == TRUE

\* A scheduler thread that has not run a job yet
Idle(alive) ==
    [alive |-> alive, runs |-> 0, caught |-> 0, job |-> "none", body |-> "returns",
     crossed |-> FALSE]

----------------------------------------------------------------------------
(* APIClient._make_request and its cache.  The data of a response is the    *)
(* number of the upstream request that brought it, so that a value served   *)
(* from the cache names the request it came from.                           *)

MaxFetches == 2

cache_duration == 30

\* self.icpswap_url and self.kongswap_base_url, the two URLs health_check asks
Urls == {"icpswap_url", "kongswap_base_url"}

\* The scheduler thread and the thread of the bot's command handlers
Threads == {"scheduler", "bot"}

\* How session.get, raise_for_status and response.json() can end
HttpOutcomes == {"ok", "timeout", "connection_error", "http_error", "invalid_json"}

\* The instants at which the cache model looks at the clock
CacheTimes == {0, 10, cache_duration - 1, cache_duration}

\* What a _make_request call returned: None, or the data of request number data
NoResult == [returned |-> FALSE, none |-> FALSE, data |-> 0, from_cache |-> FALSE]
ReturnNone == [returned |-> TRUE, none |-> TRUE, data |-> 0, from_cache |-> FALSE]
ReturnData(data, from_cache) ==
    [returned |-> TRUE, none |-> FALSE, data |-> data, from_cache |-> from_cache]

\* A thread that is not in _make_request
IdleCaller ==
    [pc |-> "idle", url |-> "none", current_time |-> 0, fetch |-> 0, result |-> NoResult]

\* The entry kept when the time of completion is taken instead
cache_entry_at_completion(current_time, data) == [time |-> now, data |-> data]

\* self.cache[url] = (current_time, data): the time is the one the call read
\* before it looked at the cache
cache_entry(current_time, data) == [time |-> current_time, data |-> data]

\* The test with the boundary on the other side
is_fresh_inclusive(current_time, cache_time) ==
    current_time - cache_time <= cache_duration

\* current_time - cache_time < self.cache_duration
is_fresh(current_time, cache_time) == current_time - cache_time < cache_duration

\* url in self.cache and the entry is fresh: the entry, else nothing
cache_hit(c, url, current_time) ==
    {entry \in c[url] : is_fresh(current_time, entry.time)}

\* A failure that drops the entry of the URL
cache_after_failure_evicts(c, url) == [c EXCEPT ![url] = {}]

\* The except clauses of _make_request log and return None; none of them
\* touches self.cache
cache_after_failure(c, url) == c

----------------------------------------------------------------------------
(* WaterNeuronClient.get_exchange_rate and its cache *)

waterneuron_cache_duration == 120

\* How the request to the WaterNeuron API can end: a 200 answer that parses,
\* a 200 answer _parse_api_response cannot read, a 200 answer that is not
\* JSON, another status, a timeout, any other error
WaterneuronOutcomes ==
    {"ok", "parse_failure", "invalid_json", "status", "timeout", "error"}

\* The instants of the WaterNeuron model, and how long a request can take
WaterneuronTimes ==
    {0, 60, waterneuron_cache_duration - 1, waterneuron_cache_duration,
     waterneuron_cache_duration + 60, 2 * waterneuron_cache_duration}
FetchDurations == {0, 10}

\* The response dicts, with the time in their 'timestamp'
_get_fallback_response(t) == [success |-> FALSE, source |-> "fallback", timestamp |-> t]

_parse_api_response(outcome, t) ==
    IF outcome = "ok"
    THEN [success |-> TRUE, source |-> "waterneuron_api", timestamp |-> t]
    ELSE _get_fallback_response(t)

\* A client that keeps whatever _parse_api_response returned
caches_whatever(exchange_rate_data) == TRUE

\* if exchange_rate_data['success']: only then is the result put in the cache
caches(exchange_rate_data) == exchange_rate_data.success

\* cache_key in self.cache and datetime.now() - timestamp < timedelta(seconds=120)
waterneuron_cache_hit(c, t) ==
    {entry \in c : t - entry.timestamp < waterneuron_cache_duration}

\* What one get_exchange_rate call does when it begins at t and its request,
\* if it makes one, takes duration seconds: the cache it leaves, the response
\* it returns and whether it made a request
get_exchange_rate(c, t, outcome, duration) ==
    LET hit == waterneuron_cache_hit(c, t)
        done == t + duration
        exchange_rate_data == _parse_api_response(outcome, done)
    IN  IF hit # {}
        THEN [cache |-> c, result |-> (CHOOSE entry \in hit : TRUE).cached_data,
              fetched |-> FALSE, ended |-> t]
        ELSE IF outcome \in {"ok", "parse_failure"}
        THEN IF caches(exchange_rate_data)
             THEN [cache |-> {[cached_data |-> exchange_rate_data, timestamp |-> done]},
                   result |-> exchange_rate_data, fetched |-> TRUE, ended |-> done]
             ELSE [cache |-> c, result |-> _get_fallback_response(done),
                   fetched |-> TRUE, ended |-> done]
        ELSE [cache |-> c, result |-> _get_fallback_response(done),
              fetched |-> TRUE, ended |-> done]

\* A client on which get_exchange_rate was not called yet
NoRateCall ==
    [called |-> FALSE, began |-> 0, outcome |-> "none", fetched |-> FALSE,
     result |-> _get_fallback_response(0)]

----------------------------------------------------------------------------
(* Database: users *)

\* The external ids of the model: 12345 and 22345 end in the same four digits
TelegramIds == {12345, 22345, 67890, 345}

\* The instants at which the users model looks at the clock
UserTimes == {0, 60}

\* referral_code = f"ICP{telegram_id % 10000:04d}": the prefix and the four
\* digits, most significant first
referral_code(telegram_id) ==
    LET n == telegram_id % 10000
    IN  <<"ICP", n \div 1000, (n \div 100) % 10, (n \div 10) % 10, n % 10>>

\* SELECT * FROM users WHERE telegram_id = ?: the row, or None (the empty set)
get_user_by_telegram_id(rows, telegram_id) ==
    {rows[i] : i \in {j \in 1..Len(rows) : rows[j].telegram_id = telegram_id}}

\* UPDATE users SET last_activity = CURRENT_TIMESTAMP WHERE telegram_id = ?
update_user_activity(rows, telegram_id) ==
    [i \in 1..Len(rows) |->
        IF rows[i].telegram_id = telegram_id
        THEN [rows[i] EXCEPT !.last_activity = now]
        ELSE rows[i]]

\* The INSERT fails with IntegrityError when telegram_id or referral_code,
\* both UNIQUE, is already in the table
IntegrityError(rows, telegram_id) ==
    \E i \in 1..Len(rows) :
        \/ rows[i].telegram_id = telegram_id
        \/ rows[i].referral_code = referral_code(telegram_id)

\* add_user: the table it leaves, the id it returns, or the TypeError of
\* None['id'] that leaves the except clause of the IntegrityError
add_user(rows, telegram_id) ==
    IF IntegrityError(rows, telegram_id)
    THEN LET updated == update_user_activity(rows, telegram_id)
             found == get_user_by_telegram_id(updated, telegram_id)
         IN  IF found = {}
             THEN [users |-> updated, returned |-> {}, raised |-> TRUE]
             ELSE [users |-> updated, returned |-> {row.id : row \in found},
                   raised |-> FALSE]
    ELSE [users |-> Append(rows, [id |-> Len(rows) + 1, telegram_id |-> telegram_id,
                                  referral_code |-> referral_code(telegram_id),
                                  last_activity |-> now]),
          returned |-> {Len(rows) + 1}, raised |-> FALSE]

\* No add_user call yet
NoRegistration == [called |-> FALSE, telegram_id |-> 0, returned |-> {}, raised |-> FALSE]

----------------------------------------------------------------------------
(* The record kept in op *)

Op(name) ==
    [name |-> name, days |-> 0, alerts |-> <<>>, current_prices |-> {},
     evals |-> <<>>, steps |-> <<>>,
     prices |-> [raised |-> FALSE, all_pairs |-> <<>>]]

\* The dicts get_icp_prices can hand to fetch_and_store_data: distinct pairs
\* in insertion order, each with its price
PriceData(pairs, prices) ==
    {d \in UNION {[1..n -> [pair : pairs, price : prices]] : n \in 0..Cardinality(pairs)} :
        \A i, j \in 1..Len(d) : i # j => d[i].pair # d[j].pair}

RECURSIVE store_all(_, _, _)
store_all(rows, id, price_data) ==
    IF price_data = <<>> THEN rows
    ELSE store_all(add_price_data(rows, id, Head(price_data).pair, Head(price_data).price),
                   id + 1, Tail(price_data))

----------------------------------------------------------------------------
(* Actions *)

\* A new APIClient and a new WaterNeuronClient: empty caches, no call yet
InitClients ==
    /\ cache = [url \in Urls |-> {}]
    /\ callers = [th \in Threads |-> IdleCaller]
    /\ fetches = <<>>
    /\ wn_cache = {}
    /\ wn_call = NoRateCall

\* _make_request(url) begins on a thread: current_time = time.time()
MakeRequestBegin(th, url) ==
    /\ callers[th].pc \in {"idle", "done"}
    /\ callers' = [callers EXCEPT ![th] =
                      [IdleCaller EXCEPT !.pc = "check", !.url = url,
                                         !.current_time = now]]
    /\ op' = Op("_make_request")
    /\ UNCHANGED <<now, price_history, next_id, user_alerts, alert_log, last_alerts,
                   telegram_bot, upstream, arbitrage_client, application,
                   cache, fetches, wn_cache, wn_call, registry, deliveries>>

\* The look at the cache: a fresh entry is returned, otherwise session.get
\* sends the upstream request
MakeRequestCheck(th) ==
    LET c == callers[th]
        hit == cache_hit(cache, c.url, c.current_time)
    IN  /\ c.pc = "check"
        /\ IF hit # {}
           THEN /\ \E entry \in hit :
                      callers' = [callers EXCEPT ![th] =
                                     [c EXCEPT !.pc = "done",
                                               !.result = ReturnData(entry.data, TRUE)]]
                /\ UNCHANGED fetches
           ELSE /\ Len(fetches) < MaxFetches
                /\ fetches' = Append(fetches,
                                     [url |-> c.url, caller |-> th,
                                      clock |-> c.current_time, started |-> now,
                                      completed |-> {}, ok |-> FALSE])
                /\ callers' = [callers EXCEPT ![th] =
                                  [c EXCEPT !.pc = "fetch", !.fetch = Len(fetches) + 1]]
        /\ op' = Op("_make_request")
        /\ UNCHANGED <<now, price_history, next_id, user_alerts, alert_log, last_alerts,
                       telegram_bot, upstream, arbitrage_client, application,
                       cache, wn_cache, wn_call, registry, deliveries>>

\* The upstream request ends: with data (response.json() returned), or with
\* an exception, which an except clause turns into None
MakeRequestRespond(th, outcome) ==
    LET c == callers[th]
    IN  /\ c.pc = "fetch"
        /\ fetches' = [fetches EXCEPT ![c.fetch] =
                          [@ EXCEPT !.completed = {now}, !.ok = (outcome = "ok")]]
        /\ IF outcome = "ok"
           THEN /\ callers' = [callers EXCEPT ![th] = [c EXCEPT !.pc = "store"]]
                /\ UNCHANGED cache
           ELSE /\ callers' = [callers EXCEPT ![th] =
                                  [c EXCEPT !.pc = "done", !.result = ReturnNone]]
                /\ cache' = cache_after_failure(cache, c.url)
        /\ op' = Op("_make_request")
        /\ UNCHANGED <<now, price_history, next_id, user_alerts, alert_log, last_alerts,
                       telegram_bot, upstream, arbitrage_client, application,
                       wn_cache, wn_call, registry, deliveries>>

\* self.cache[url] = (current_time, data); return data
MakeRequestStore(th) ==
    LET c == callers[th]
    IN  /\ c.pc = "store"
        /\ cache' = [cache EXCEPT ![c.url] = {cache_entry(c.current_time, c.fetch)}]
        /\ callers' = [callers EXCEPT ![th] =
                          [c EXCEPT !.pc = "done", !.result = ReturnData(c.fetch, FALSE)]]
        /\ op' = Op("_make_request")
        /\ UNCHANGED <<now, price_history, next_id, user_alerts, alert_log, last_alerts,
                       telegram_bot, upstream, arbitrage_client, application,
                       fetches, wn_cache, wn_call, registry, deliveries>>

\* WaterNeuronClient.get_exchange_rate; the time its request takes passes
GetExchangeRate(outcome, duration) ==
    LET call == get_exchange_rate(wn_cache, now, outcome, duration)
    IN  /\ call.ended <= 2 * waterneuron_cache_duration + 10
        /\ wn_cache' = call.cache
        /\ now' = call.ended
        /\ wn_call' = [called |-> TRUE, began |-> now,
                       outcome |-> IF call.fetched THEN outcome ELSE "none",
                       fetched |-> call.fetched, result |-> call.result]
        /\ op' = Op("get_exchange_rate")
        /\ UNCHANGED <<price_history, next_id, user_alerts, alert_log, last_alerts,
                       telegram_bot, upstream, arbitrage_client, application,
                       cache, callers, fetches, registry, deliveries>>

\* A fresh database: no user
InitRegistry ==
    /\ users = <<>>
    /\ registration = NoRegistration

\* Database.add_user(telegram_id), as the /start command calls it
AddUser(telegram_id) ==
    LET call == add_user(users, telegram_id)
    IN  /\ users' = call.users
        /\ registration' = [called |-> TRUE, telegram_id |-> telegram_id,
                            returned |-> call.returned, raised |-> call.raised]
        /\ op' = Op("add_user")
        /\ UNCHANGED <<now, price_history, next_id, user_alerts, alert_log, last_alerts,
                       telegram_bot, upstream, arbitrage_client, application,
                       clients, deliveries>>

\* A new NICPArbitrageClient, before any call
NoCall ==
    [called |-> FALSE, staking_rate |-> TenThousandths(9001), nicp_price_in_icp |-> 0,
     waterneuron_data |-> NoData, result |-> [raised |-> FALSE]]

InitArbitrageClient ==
    /\ DIRECT_STAKING_RATE = TenThousandths(9001)
    /\ arbitrage = NoCall

\* A new ICPMonitorApp: nothing sent, the flag down, no scheduler thread
InitApplication ==
    /\ outbox = <<>>
    /\ running = FALSE
    /\ scheduler = Idle(FALSE)

\* A fresh database and a new AlertSystem
InitStore ==
    /\ now = 0
    /\ price_history = <<>>
    /\ next_id = 1
    /\ user_alerts = <<>>
    /\ alert_log = <<>>
    /\ last_alerts = <<>>
    /\ op = Op("init")

\* The prices come as inputs of the actions; the sources are out of reach
Init ==
    /\ InitStore
    /\ InitArbitrageClient
    /\ InitApplication
    /\ InitClients
    /\ InitRegistry
    /\ deliveries = <<>>
    /\ telegram_bot \in BOOLEAN
    /\ icpswap_response = Response("timeout", <<>>)
    /\ kongswap_response = Response("timeout", <<>>)

\* The price history on its own: the bot is there and is not used
InitHistory ==
    /\ InitStore
    /\ InitArbitrageClient
    /\ InitApplication
    /\ InitClients
    /\ InitRegistry
    /\ deliveries = <<>>
    /\ telegram_bot = TRUE
    /\ icpswap_response = Response("timeout", <<>>)
    /\ kongswap_response = Response("timeout", <<>>)

\* The sources answer with one of the responses of the model, of at most
\* MaxBatch records between them
InitPrices ==
    /\ InitStore
    /\ InitArbitrageClient
    /\ InitApplication
    /\ InitClients
    /\ InitRegistry
    /\ deliveries = <<>>
    /\ telegram_bot = TRUE
    /\ icpswap_response \in IcpswapResponses
    /\ kongswap_response \in KongswapResponses
    /\ Len(icpswap_response.data) + Len(kongswap_response.data) <= MaxBatch

\* Time passes
Tick(t) ==
    /\ t > now
    /\ now' = t
    /\ op' = Op("tick")
    /\ UNCHANGED <<price_history, next_id, user_alerts, alert_log, last_alerts,
                   telegram_bot, upstream,
                   arbitrage_client, application,
                   clients, registry, deliveries>>

\* ICPMonitorApp.fetch_and_store_data on the dict price_data
FetchAndStoreData(price_data) ==
    /\ next_id - 1 + Len(price_data) <= MaxRows
    /\ price_history' = store_all(price_history, next_id, price_data)
    /\ next_id' = next_id + Len(price_data)
    /\ op' = Op("fetch_and_store_data")
    /\ UNCHANGED <<now, user_alerts, alert_log, last_alerts, telegram_bot, upstream,
                   arbitrage_client, application,
                   clients, registry, deliveries>>

\* TelegramBot.set_alert_command -> Database.add_user_alert
AddUserAlert(user_id, pair, alert_type, threshold) ==
    /\ Len(user_alerts) < MaxAlerts
    /\ user_alerts' = add_user_alert(user_alerts, user_id, pair, alert_type, threshold)
    /\ op' = Op("add_user_alert")
    /\ UNCHANGED <<now, price_history, next_id, alert_log, last_alerts, telegram_bot,
                   upstream,
                   arbitrage_client, application,
                   clients, registry, deliveries>>

\* The alerts whose send the bot reported as successful, in the order of the run
delivered_alerts(evals) ==
    LET delivered == SelectSeq(evals, LAMBDA e : e.delivered)
    IN  [i \in 1..Len(delivered) |-> delivered[i].alert_id]

\* The results check_all_alerts can have on the prices current_prices, one
\* for each way the processing of the alerts can turn out
check_all_alerts(current_prices) ==
    LET alerts == get_all_active_alerts(user_alerts)
        st0 == [last_alerts |-> last_alerts, user_alerts |-> user_alerts,
                alert_log |-> alert_log, evals |-> <<>>, steps |-> <<>>]
    IN  IF current_prices = {} THEN {st0}
        ELSE {run_alerts(st0, alerts, current_prices, outcomes) :
                outcomes \in [1..Len(user_alerts) -> Outcomes]}

\* AlertSystem.check_all_alerts (ICPMonitorApp.run_alert_check), with the
\* prices get_icp_prices returned
CheckAllAlerts(current_prices) ==
    \E st1 \in check_all_alerts(current_prices) :
        /\ last_alerts' = st1.last_alerts
        /\ user_alerts' = st1.user_alerts
        /\ alert_log' = st1.alert_log
        /\ op' = [Op("check_all_alerts") EXCEPT
                      !.alerts = get_all_active_alerts(user_alerts),
                      !.current_prices = current_prices,
                      !.evals = st1.evals,
                      !.steps = st1.steps]
        /\ deliveries' = deliveries \o delivered_alerts(st1.evals)
        /\ UNCHANGED <<now, price_history, next_id, telegram_bot, upstream,
                   arbitrage_client, application,
                   clients, registry>>

\* Database.cleanup_old_data(days)
CleanupOldData(days) ==
    /\ price_history' = cleanup_old_data(price_history, days)
    /\ op' = [Op("cleanup_old_data") EXCEPT !.days = days]
    /\ UNCHANGED <<now, next_id, user_alerts, alert_log, last_alerts, telegram_bot,
                   upstream,
                   arbitrage_client, application,
                   clients, registry, deliveries>>

\* ICPMonitorApp.daily_cleanup: cleanup_old_data(days=30), then
\* cleanup_old_alerts, which only logs
DailyCleanup == CleanupOldData(CleanupDays)

\* APIClient.get_icp_prices on what the sources answer, as the /price
\* command and check_all_alerts call it
GetIcpPrices ==
    /\ op' = [Op("get_icp_prices") EXCEPT
                  !.prices = get_icp_prices(icpswap_response, kongswap_response)]
    /\ UNCHANGED <<now, price_history, next_id, user_alerts, alert_log, last_alerts,
                   telegram_bot, upstream,
                   arbitrage_client, application,
                   clients, registry, deliveries>>

\* ICPMonitorApp.fetch_and_store_data on what the sources answer; an
\* exception of get_icp_prices ends the job in its except clause
FetchAndStorePrices ==
    LET prices == get_icp_prices(icpswap_response, kongswap_response)
        price_data == IF prices.raised THEN <<>> ELSE prices.all_pairs
    IN  /\ next_id - 1 + Len(price_data) <= MaxRows
        /\ price_history' = store_all(price_history, next_id, price_data)
        /\ next_id' = next_id + Len(price_data)
        /\ op' = [Op("fetch_and_store_data") EXCEPT !.prices = prices]
        /\ UNCHANGED <<now, user_alerts, alert_log, last_alerts, telegram_bot, upstream,
                   arbitrage_client, application,
                   clients, registry, deliveries>>

\* NICPArbitrageClient.get_waterneuron_exchange_rate on what the WaterNeuron
\* client returns
GetWaterneuronExchangeRate(waterneuron_data) ==
    /\ DIRECT_STAKING_RATE' = get_waterneuron_exchange_rate(DIRECT_STAKING_RATE, waterneuron_data)
    /\ op' = Op("get_waterneuron_exchange_rate")
    /\ UNCHANGED <<now, price_history, next_id, user_alerts, alert_log, last_alerts,
                   telegram_bot, upstream, arbitrage, application,
                   clients, registry, deliveries>>

\* NICPArbitrageClient.calculate_arbitrage_opportunity
CalculateArbitrageOpportunity(nicp_price_in_icp, waterneuron_data) ==
    /\ arbitrage' =
          [called |-> TRUE, staking_rate |-> DIRECT_STAKING_RATE,
           nicp_price_in_icp |-> nicp_price_in_icp,
           waterneuron_data |-> waterneuron_data,
           result |-> calculate_arbitrage_opportunity(DIRECT_STAKING_RATE, nicp_price_in_icp,
                                                      waterneuron_data)]
    /\ op' = Op("calculate_arbitrage_opportunity")
    /\ UNCHANGED <<now, price_history, next_id, user_alerts, alert_log, last_alerts,
                   telegram_bot, upstream, DIRECT_STAKING_RATE,
                   application,
                   clients, registry, deliveries>>

\* AlertSystem.trigger_alert handing the text of an alert to
\* TelegramBot.send_alert_to_user
SendAlertToUser(message, delivered) ==
    /\ telegram_bot
    /\ outbox' = <<send_message("user", message, delivered)>>
    /\ op' = Op("send_alert_to_user")
    /\ UNCHANGED <<now, price_history, next_id, user_alerts, alert_log, last_alerts,
                   telegram_bot, upstream, arbitrage_client, running, scheduler,
                   clients, registry, deliveries>>

\* ICPMonitorApp.send_market_update with a channel configured: the whole of
\* AlertSystem.send_market_updates on the prices get_icp_prices returned
SendMarketUpdate(current_prices, delivered) ==
    /\ outbox' = send_market_updates("channel", current_prices, telegram_bot, delivered)
    /\ op' = Op("send_market_update")
    /\ UNCHANGED <<now, price_history, next_id, user_alerts, alert_log, last_alerts,
                   telegram_bot, upstream, arbitrage_client, running, scheduler,
                   clients, registry, deliveries>>

\* ICPMonitorApp.start: the flag is set and the scheduler thread started
Start ==
    /\ ~running
    /\ scheduler = Idle(FALSE)
    /\ running' = TRUE
    /\ scheduler' = Idle(TRUE)
    /\ op' = Op("start")
    /\ UNCHANGED <<now, price_history, next_id, user_alerts, alert_log, last_alerts,
                   telegram_bot, upstream, arbitrage_client, outbox,
                   clients, registry, deliveries>>

\* One turn of the loop of run_scheduler in which run_pending runs a job that
\* is due.  An error that leaves the job is caught by the loop when the loop
\* catches, and ends the thread when it does not.
RunPending(job, body) ==
    LET crossed == body = "raises" /\ ~job_catches[job]
    IN  /\ running
        /\ scheduler.alive
        /\ scheduler.runs < MaxRuns
        /\ scheduler' =
              [alive |-> ~crossed \/ run_scheduler_catches,
               runs |-> scheduler.runs + 1,
               caught |-> scheduler.caught
                          + (IF body = "raises" /\ ~crossed THEN 1 ELSE 0),
               job |-> job, body |-> body,
               crossed |-> scheduler.crossed \/ crossed]
        /\ op' = Op("run_pending")
        /\ UNCHANGED <<now, price_history, next_id, user_alerts, alert_log, last_alerts,
                       telegram_bot, upstream, arbitrage_client, outbox, running,
                   clients, registry, deliveries>>

\* ICPMonitorApp.stop clears the flag
Stop ==
    /\ running
    /\ running' = FALSE
    /\ op' = Op("stop")
    /\ UNCHANGED <<now, price_history, next_id, user_alerts, alert_log, last_alerts,
                   telegram_bot, upstream, arbitrage_client, outbox, scheduler,
                   clients, registry, deliveries>>

\* The loop of run_scheduler finds the flag cleared and the thread ends
RunSchedulerExit ==
    /\ ~running
    /\ scheduler.alive
    /\ scheduler' = [scheduler EXCEPT !.alive = FALSE]
    /\ op' = Op("run_scheduler")
    /\ UNCHANGED <<now, price_history, next_id, user_alerts, alert_log, last_alerts,
                   telegram_bot, upstream, arbitrage_client, outbox, running,
                   clients, registry, deliveries>>

Next ==
    \/ \E t \in Times : Tick(t)
    \/ \E price_data \in PriceData({"ICP/NICP"}, {100, 110}) : FetchAndStoreData(price_data)
    \/ \E c \in AlertChoices : AddUserAlert(c[1], c[2], c[3], c[4])
    \/ \E current_prices \in SUBSET Pairs : CheckAllAlerts(current_prices)

Spec == Init /\ [][Next]_vars

NextStore ==
    \/ \E t \in StoreTimes : Tick(t)
    \/ \E price_data \in PriceData(Pairs, Prices) : FetchAndStoreData(price_data)
    \/ \E c \in StoreAlertChoices : AddUserAlert(c[1], c[2], c[3], c[4])
    \/ \E days \in Days : CleanupOldData(days)
    \/ DailyCleanup

SpecStore == InitHistory /\ [][NextStore]_vars

NextPrices ==
    \/ GetIcpPrices
    \/ FetchAndStorePrices

SpecPrices == InitPrices /\ [][NextPrices]_vars

InitArbitrage ==
    /\ InitStore
    /\ telegram_bot = TRUE
    /\ icpswap_response = Response("timeout", <<>>)
    /\ kongswap_response = Response("timeout", <<>>)
    /\ InitArbitrageClient
    /\ InitApplication
    /\ InitClients
    /\ InitRegistry
    /\ deliveries = <<>>

NextArbitrage ==
    \/ \E waterneuron_data \in WaterneuronAnswers :
          GetWaterneuronExchangeRate(waterneuron_data)
    \/ \E nicp_price_in_icp \in PriceInputs, waterneuron_data \in WaterneuronInputs :
          CalculateArbitrageOpportunity(nicp_price_in_icp, waterneuron_data)

SpecArbitrage == InitArbitrage /\ [][NextArbitrage]_vars

NextChannel ==
    \/ \E message \in AlertMessages, delivered \in BOOLEAN :
          SendAlertToUser(message, delivered)
    \/ \E current_prices \in Listings, delivered \in BOOLEAN :
          SendMarketUpdate(current_prices, delivered)

SpecChannel == Init /\ [][NextChannel]_vars

NextScheduler ==
    \/ Start
    \/ \E job \in Jobs, body \in Bodies : RunPending(job, body)
    \/ Stop
    \/ RunSchedulerExit

SpecScheduler == InitHistory /\ [][NextScheduler]_vars

\* The calls of one thread, one after the other
NextCache ==
    \/ \E t \in CacheTimes : Tick(t)
    \/ \E url \in Urls : MakeRequestBegin("scheduler", url)
    \/ MakeRequestCheck("scheduler")
    \/ \E outcome \in HttpOutcomes : MakeRequestRespond("scheduler", outcome)
    \/ MakeRequestStore("scheduler")

SpecCache == InitHistory /\ [][NextCache]_vars

\* The calls of the two threads for one URL, interleaved
NextCacheRace ==
    \/ \E t \in CacheTimes : Tick(t)
    \/ \E th \in Threads : MakeRequestBegin(th, "icpswap_url")
    \/ \E th \in Threads : MakeRequestCheck(th)
    \/ \E th \in Threads, outcome \in HttpOutcomes : MakeRequestRespond(th, outcome)
    \/ \E th \in Threads : MakeRequestStore(th)

SpecCacheRace == InitHistory /\ [][NextCacheRace]_vars

NextWaterneuron ==
    \/ \E t \in WaterneuronTimes : Tick(t)
    \/ \E outcome \in WaterneuronOutcomes, duration \in FetchDurations :
          GetExchangeRate(outcome, duration)

SpecWaterneuron == InitHistory /\ [][NextWaterneuron]_vars

NextUsers ==
    \/ \E t \in UserTimes : Tick(t)
    \/ \E telegram_id \in TelegramIds : AddUser(telegram_id)

SpecUsers == InitHistory /\ [][NextUsers]_vars

----------------------------------------------------------------------------
(* Properties of the alert evaluator, checked under Spec *)

\* The evaluations of the last check_all_alerts run, paired with their alerts
CheckRan == op.name = "check_all_alerts" /\ op.current_prices # {}
EvalIndices == 1..Len(op.evals)

\* The claim's firing condition for price alerts: the change is available
\* (not None) and has reached the threshold
ChangeReached(alert) ==
    LET change == get_price_change(alert.pair, AlertWindowHours)
    IN  CASE alert.alert_type = "price_up" ->
                ~change.none /\ RatioGe(change, alert.threshold)
          [] alert.alert_type = "price_down" ->
                ~change.none /\ RatioLe(change, 0 - alert.threshold)
          [] OTHER -> FALSE

\* C1: when the firing condition of an alert holds at an evaluation, a
\* notification is dispatched if the key never fired or at least
\* alert_cooldown seconds have passed since its last fire, for every such
\* elapsed time, and none is dispatched if less than alert_cooldown seconds
\* have passed.
C1_CooldownWindow ==
    CheckRan /\ telegram_bot =>
        \A i \in EvalIndices :
            LET e == op.evals[i]
                a == op.alerts[i]
            IN  e.present /\ should_trigger(a) /\ e.outcome # "raise" =>
                    /\ (e.elapsed = {} \/ \E d \in e.elapsed : d >= alert_cooldown)
                            => e.attempted
                    /\ (\E d \in e.elapsed : d < alert_cooldown) => ~e.attempted

\* C2 as stated: a dispatch that failed advances trigger_count and
\* last_triggered of the alert exactly as a successful one does.
C2_FailureAdvances ==
    [][op'.name = "check_all_alerts" =>
        \A i \in 1..Len(op'.evals) :
            LET e == op'.evals[i]
            IN  e.attempted /\ ~e.delivered =>
                    /\ user_alerts'[e.alert_id].trigger_count =
                            user_alerts[e.alert_id].trigger_count + 1
                    /\ user_alerts'[e.alert_id].last_triggered = {now}]_vars

\* The alert_log rows of one alert
LogRows(log, alert_id) == {j \in 1..Len(log) : log[j].alert_id = alert_id}

\* C2, amended: a dispatch that failed leaves trigger_count and
\* last_triggered of the alert as they were and adds no alert_log row for it;
\* the bookkeeping of an alert advances only in a run whose send for that
\* alert reported success.
C2_FailureLeavesBookkeeping ==
    [][op'.name = "check_all_alerts" =>
        /\ \A i \in 1..Len(op'.evals) :
              LET e == op'.evals[i]
              IN  e.attempted /\ ~e.delivered =>
                      /\ user_alerts'[e.alert_id] = user_alerts[e.alert_id]
                      /\ LogRows(alert_log', e.alert_id) = LogRows(alert_log, e.alert_id)
        /\ \A id \in 1..Len(user_alerts) :
              user_alerts'[id] # user_alerts[id] =>
                  \E i \in 1..Len(op'.evals) :
                      op'.evals[i].alert_id = id /\ op'.evals[i].delivered]_vars

\* A run in which a send was attempted and failed, and the alert still has
\* never been recorded as triggered
C2_FailedDispatchSeen ==
    /\ CheckRan
    /\ \E i \in EvalIndices :
          LET e == op.evals[i]
          IN  /\ e.attempted /\ ~e.delivered /\ e.outcome = "send_failed"
              /\ user_alerts[e.alert_id].trigger_count = 0
              /\ user_alerts[e.alert_id].last_triggered = {}

\* C6: an alert that is evaluated (pair present, not in cooldown, no
\* exception) fires exactly when the change is available and has reached the
\* threshold: price_up iff change >= threshold, price_down iff
\* change <= -threshold.
C6_FiresIffReached ==
    CheckRan =>
        \A i \in EvalIndices :
            LET e == op.evals[i]
                a == op.alerts[i]
            IN  /\ a.alert_type \in {"price_up", "price_down"}
                /\ e.present /\ ~e.cooldown /\ e.outcome # "raise"
                => (e.fired <=> ChangeReached(a))

\* C7: in a check_all_alerts run every active alert is processed, whatever
\* happened to the alerts before it: an alert whose pair is present, that is
\* not in cooldown, whose condition holds and whose own processing raises
\* nothing has its notification attempted.
C7_FailureIsolation ==
    CheckRan =>
        /\ Len(op.evals) = Len(op.alerts)
        /\ \A i \in EvalIndices :
              LET e == op.evals[i]
                  a == op.alerts[i]
              IN  /\ e.alert_id = a.id
                  /\ (/\ a.pair \in op.current_prices
                      /\ ~e.cooldown
                      /\ should_trigger(a)
                      /\ e.outcome # "raise"
                      /\ telegram_bot) => e.attempted

\* A run in which the processing of one alert failed (the send failed or an
\* exception was raised) and a later alert had its notification attempted
C7_LaterAlertAttempted ==
    /\ CheckRan
    /\ \E i, j \in EvalIndices :
          /\ i < j
          /\ op.evals[i].outcome \in {"send_failed", "raise"}
          /\ op.evals[j].attempted

\* The steps of the last run that belong to the alert, in their order
StepsOf(steps, alert_id) == SelectSeq(steps, LAMBDA x : x.alert_id = alert_id)
StepNames(steps) == [i \in 1..Len(steps) |-> steps[i].step]

\* Every change of a run is the change of one of its steps: the first step
\* starts from the tables before the run, each step from what the step
\* before it left, and the last one leaves the tables after the run
StepsAccountForRun(steps, before, after) ==
    IF steps = <<>> THEN before = after
    ELSE /\ steps[1].before = before
         /\ \A i \in 1..(Len(steps) - 1) : steps[i].after = steps[i + 1].before
         /\ steps[Len(steps)].after = after

C23_AbsentPairNoOp ==
    [][op'.name = "check_all_alerts" /\ op'.current_prices # {} =>
          /\ StepsAccountForRun(op'.steps,
                                [user_alerts |-> user_alerts, alert_log |-> alert_log,
                                 last_alerts |-> last_alerts],
                                [user_alerts |-> user_alerts', alert_log |-> alert_log',
                                 last_alerts |-> last_alerts'])
          /\ Len(op'.evals) = Len(op'.alerts)
          /\ \A i \in 1..Len(op'.alerts) :
                LET a == op'.alerts[i]
                IN  a.pair \notin op'.current_prices =>
                      /\ StepsOf(op'.steps, a.id) = <<>>
                      /\ user_alerts'[a.id] = user_alerts[a.id]
                      /\ LogRows(alert_log', a.id) = LogRows(alert_log, a.id)
                      /\ ~op'.evals[i].attempted
          /\ (\A i \in 1..Len(op'.alerts) : op'.alerts[i].pair \notin op'.current_prices)
                => /\ user_alerts' = user_alerts
                   /\ alert_log' = alert_log
                   /\ last_alerts' = last_alerts]_vars

\* A run in which one alert had no price for its pair while another alert
\* was delivered
C23_AbsentBesideDelivered ==
    /\ CheckRan
    /\ \E i, j \in EvalIndices :
          /\ op.alerts[i].pair \notin op.current_prices
          /\ StepsOf(op.steps, op.alerts[i].id) = <<>>
          /\ op.evals[j].delivered

\* C26: when an alert fires and the notification is not delivered (the send
\* failed, or no bot is attached), the cooldown of its key is set to now all
\* the same; and an alert whose key was set less than alert_cooldown seconds
\* ago has no dispatch attempted.
C26_CooldownWithoutDelivery ==
    [][op'.name = "check_all_alerts" =>
          \A i \in 1..Len(op'.evals) :
              LET e == op'.evals[i]
                  a == op'.alerts[i]
              IN  /\ (e.fired /\ ~e.delivered) =>
                        /\ cooldown_key(a) \in DOMAIN last_alerts'
                        /\ last_alerts'[cooldown_key(a)] = now
                        /\ user_alerts'[a.id].trigger_count = user_alerts[a.id].trigger_count
                  /\ (\E d \in e.elapsed : d < alert_cooldown) =>
                        ~e.fired /\ ~e.attempted]_vars

\* An alert whose condition holds is kept back by the cooldown that a
\* dispatch which delivered nothing set 150 seconds before
C26_KeptBackAfterFailure ==
    /\ CheckRan
    /\ deliveries = <<>>
    /\ \E i \in EvalIndices :
          /\ op.evals[i].cooldown
          /\ should_trigger(op.alerts[i])
          /\ op.evals[i].elapsed = {alert_cooldown \div 2}

\* The number of sends for the alert that the bot reported as successful
Delivered(alert_id) ==
    Cardinality({i \in 1..Len(deliveries) : deliveries[i] = alert_id})

----------------------------------------------------------------------------
(* Properties of the price history, checked under SpecStore *)

\* C3: get_price_change returns None exactly when fewer than two
\* observations of the pair lie in the window, so a single observation gives
\* None and not a change of 0.
C3_NoneIffFewerThanTwo ==
    \A pair \in Pairs, hours \in Hours :
        get_price_change(pair, hours).none <=> Cardinality(InWindow(pair, hours)) < 2

\* The rows a step removed
Removed == {r \in Range(price_history) : r \notin Range(price_history')}

\* C10: a row of price_history is never modified; rows are removed only by
\* cleanup_old_data(days), which removes exactly the rows older than days
\* days, keeps every other row and leaves the other tables unchanged.
C10_OnlySweepRemoves ==
    [][/\ \A r \in Range(price_history), s \in Range(price_history') :
              r.id = s.id => r = s
       /\ Removed # {} => op'.name = "cleanup_old_data"
       /\ op'.name = "cleanup_old_data" =>
              /\ Removed = {r \in Range(price_history) :
                               r.timestamp < now - op'.days * SecondsPerDay}
              /\ price_history' = SelectSeq(price_history, LAMBDA r : r \notin Removed)
              /\ UNCHANGED <<user_alerts, alert_log, last_alerts, next_id>>]_vars

\* A sweep has removed a row and kept a row that is exactly days days old
C10_SweepRemovedAndKept ==
    /\ op.name = "cleanup_old_data"
    /\ Len(price_history) < next_id - 1
    /\ user_alerts # <<>>
    /\ \E r \in Range(price_history) : r.timestamp = now - op.days * SecondsPerDay

\* C11: of two rows of price_history, the one inserted later has a strictly
\* greater timestamp, and get_latest_price(pair) is the row of the pair
\* inserted last.
C11_LaterInsertLaterTimestamp ==
    /\ \A i, j \in 1..Len(price_history) :
           i < j => price_history[i].timestamp < price_history[j].timestamp
    /\ \A pair \in Pairs :
           \A r \in get_latest_price(pair) : \A s \in RowsOf(pair) : s.id <= r.id

----------------------------------------------------------------------------
(* Properties of the price sources, checked under SpecPrices *)

\* get_icp_prices has run on what the sources answer
PricesRan == op.name \in {"get_icp_prices", "fetch_and_store_data"}
AllPairs == op.prices.all_pairs
Entries == {AllPairs[i] : i \in 1..Len(AllPairs)}

\* C4: every pair of the map get_icp_prices returns has a price above 0,
\* and so has every row fetch_and_store_data adds to price_history; records
\* with a price that is zero, negative or missing are dropped.
C4_PricesPositive ==
    PricesRan =>
        /\ \A e \in Entries : e.price > 0
        /\ \A r \in Range(price_history) : r.price > 0

\* The minimum-activity policy of the prose, with its reference values
MeetsPolicy(e) ==
    \/ e.volume_24h_usd > Hundredths(500)
    \/ e.volume_24h_usd > Hundredths(50) /\ e.liquidity_usd > Hundredths(50000)

\* C5 as stated: every pair of the map get_icp_prices returns, whichever
\* source it came from, has volume_24h_usd > 500 or (volume_24h_usd > 50 and
\* liquidity_usd > 50000).
C5_PolicyWhateverSource ==
    PricesRan => \A e \in Entries : MeetsPolicy(e)

\* C5, amended: every pair that came from ICPSwap has volume_24h_usd > 500
\* or (volume_24h_usd > 50 and liquidity_usd > 50000); every pair that came
\* from KongSwap has volume_24h_usd of at least 100.
C5_PolicyBySource ==
    PricesRan =>
        \A e \in Entries :
            /\ e.source = "icpswap" => MeetsPolicy(e)
            /\ e.source = "kongswap" => e.volume_24h_usd >= Hundredths(100)

\* The map holds a pair of ICPSwap, and a pair of KongSwap that falls short
\* of the policy of ICPSwap
C5_BothSourcesSeen ==
    /\ PricesRan
    /\ \E e \in Entries : e.source = "icpswap"
    /\ \E e \in Entries : e.source = "kongswap" /\ ~MeetsPolicy(e)

\* The pairs a source emits for one record alone
IcpswapAlone(item) == find_icp_pairs(<<item>>)
KongswapAlone(kind, record) == fetch_kongswap_data(Response(kind, <<record>>))

MalformedField(x) == x.kind \in {"str", "null"} \/ (x.kind = "num" /\ x.v < 0)

MalformedIcpswapItem(item) ==
    \E x \in {item.base_volume_24H, item.target_volume_24H, item.volume_usd_24H,
              item.liquidity_in_usd, item.last_price, item.base_volume,
              item.target_volume} : MalformedField(x)

MalformedKongTicker(ticker) ==
    \E x \in {ticker.last_price, ticker.base_volume, ticker.target_volume,
              ticker.liquidity_in_usd} : MalformedField(x)

\* C9: a record with a malformed numeric field (not a number, or negative
\* after the cast) is absent from the output of the normaliser, and the
\* output of the batch is the output of the batch without such records.
C9_MalformedSkipped ==
    PricesRan =>
        /\ icpswap_response.kind = "ok" =>
              LET data == icpswap_response.data
                  well_formed == SelectSeq(data, LAMBDA item : ~MalformedIcpswapItem(item))
              IN  /\ \A e \in Range(find_icp_pairs(data)) :
                          ~MalformedIcpswapItem(e.raw_data)
                  /\ find_icp_pairs(data) = find_icp_pairs(well_formed)
        /\ kongswap_response.kind = "tickers" =>
              LET data == kongswap_response.data
                  well_formed == SelectSeq(data, LAMBDA t : ~MalformedKongTicker(t))
              IN  /\ \A e \in Range(_format_kongswap_ticker_data(data)) :
                          ~MalformedKongTicker(e.raw_data)
                  /\ _format_kongswap_ticker_data(data) =
                          _format_kongswap_ticker_data(well_formed)

\* The pairs of the result that came from the KongSwap tickers
TickerEntries ==
    IF kongswap_response.kind = "tickers"
    THEN {e \in Entries : e.source = "kongswap"}
    ELSE {}

\* The identifier is in the static table
InTable(canister_id) == canister_id \in DOMAIN canister_to_symbol

\* C17: every pair the normaliser of the KongSwap tickers emits has a side
\* that resolved to a symbol of the static table, or an estimated
\* volume_24h_usd above 10,000; a record with two placeholder sides and a
\* volume of at most 10,000 is never emitted.
C17_KnownSideOrHighVolume ==
    PricesRan =>
        \A e \in TickerEntries :
            \/ InTable(e.raw_data.base_currency)
            \/ InTable(e.raw_data.target_currency)
            \/ e.volume_24h_usd > Hundredths(10000)

\* A pair with two placeholder sides is in the result, of a batch of which
\* another record was kept out
C17_PlaceholderPairEmitted ==
    /\ PricesRan
    /\ \E e \in TickerEntries :
           ~InTable(e.raw_data.base_currency) /\ ~InTable(e.raw_data.target_currency)
    /\ \E i \in 1..Len(kongswap_response.data) :
           /\ kongswap_response.data[i].base_currency # ""
           /\ \A e \in TickerEntries : e.raw_data # kongswap_response.data[i]

\* The symbol of the prose for an identifier, on its characters
ResolvedAsStated(canister_id, symbol) ==
    LET chars == Spelling[canister_id]
        n == Len(chars)
    IN  IF InTable(canister_id) THEN symbol = canister_to_symbol[canister_id]
        ELSE IF n > 20
        THEN Spelling[symbol] = SubSeq(chars, 1, 5) \o Ellipsis \o SubSeq(chars, n - 2, n)
        ELSE Spelling[symbol] = SubSeq(chars, 1, min(8, n)) \o Ellipsis

\* C18: the resolution of an identifier gives the mapped symbol when the
\* identifier is in the static table, otherwise its first 5 characters,
\* "..." and its last 3 characters when it is longer than 20 characters,
\* otherwise its first 8 characters and "..."; the same identifier always
\* resolves to the same symbol.
C18_ResolutionBySlices ==
    PricesRan =>
        /\ \A e \in TickerEntries :
               /\ ResolvedAsStated(e.raw_data.base_currency, e.pair[1])
               /\ ResolvedAsStated(e.raw_data.target_currency, e.pair[2])
        /\ \A e, f \in TickerEntries :
               e.raw_data.base_currency = f.raw_data.target_currency =>
                   e.pair[1] = f.pair[2]

\* Identifiers of 21 and of 20 characters were resolved for the result
C18_BothLengthsResolved ==
    /\ PricesRan
    /\ \E e \in TickerEntries : e.raw_data.base_currency = LongIdentifier
    /\ \E e \in TickerEntries : e.raw_data.target_currency = ShortIdentifier

\* What each record of the fetch produces, in the order get_icp_prices
\* processes the records: the ICPSwap items first, then the KongSwap pairs
RECURSIVE ProducedByIcpswap(_)
ProducedByIcpswap(data) ==
    IF data = <<>> THEN <<>>
    ELSE find_icp_pair(<<>>, Head(data)) \o ProducedByIcpswap(Tail(data))

Produced ==
    LET kongswap_data == fetch_kongswap_data(kongswap_response)
    IN  [i \in 1..Len(ProducedByIcpswap(get_icpswap_data(icpswap_response).data)) |->
            LET e == ProducedByIcpswap(get_icpswap_data(icpswap_response).data)[i]
            IN  [pair |-> e.pair, price |-> e.price, source |-> "icpswap",
                 raw_data |-> e.raw_data]]
        \o [i \in 1..Len(kongswap_data) |->
               [pair |-> kongswap_data[i].pair, price |-> kongswap_data[i].price,
                source |-> "kongswap", raw_data |-> kongswap_data[i].raw_data]]

LastProduced(pair_name) ==
    CHOOSE i \in 1..Len(Produced) :
        /\ Produced[i].pair = pair_name
        /\ \A j \in 1..Len(Produced) : Produced[j].pair = pair_name => j <= i

----------------------------------------------------------------------------
(* Properties of the arbitrage calculator, checked under SpecArbitrage *)

\* The last call got past the check of the price and returned a result
Evaluated ==
    arbitrage.called /\ arbitrage.nicp_price_in_icp > 0 /\ ~arbitrage.result.raised

\* The price c and the redemption rate r of the last call, and the figures
\* of the prose for them
CostPerUnit == Thousandths(arbitrage.nicp_price_in_icp)
RedemptionRate ==
    IF UsesSuppliedRate(arbitrage.waterneuron_data)
    THEN TenThousandths(arbitrage.waterneuron_data.nicp_to_icp_rate.v)
    ELSE arbitrage.staking_rate
FutureValuePerUnit == FracDiv(Whole(1), RedemptionRate)
ProfitRatio == FracDiv(FracSub(FutureValuePerUnit, CostPerUnit), CostPerUnit)
ProfitPercent == FracMul(ProfitRatio, Whole(100))
ExampleRate == FracEq(RedemptionRate, TenThousandths(9001))

\* C12: calculate_arbitrage_opportunity with a price of 0 or less returns
\* viable = False with an error tag, raises nothing and leaves the state of
\* the client as it was.
C12_InvalidPriceNotViable ==
    [][op'.name = "calculate_arbitrage_opportunity" /\ arbitrage'.nicp_price_in_icp <= 0 =>
          /\ ~arbitrage'.result.raised
          /\ "viable" \in DOMAIN arbitrage'.result
          /\ ~arbitrage'.result.viable
          /\ "error" \in DOMAIN arbitrage'.result
          /\ arbitrage'.result.error = "Invalid nICP price"
          /\ DIRECT_STAKING_RATE' = DIRECT_STAKING_RATE]_vars

\* A call with a price of 0 or less, and with data whose rate is no number
C12_InvalidPriceSeen ==
    /\ arbitrage.called
    /\ arbitrage.nicp_price_in_icp <= 0
    /\ arbitrage.waterneuron_data.nicp_to_icp_rate = Str
    /\ DataSucceeded(arbitrage.waterneuron_data)
    /\ ~arbitrage.result.raised

C14_ProfitFigures ==
    Evaluated =>
        /\ FracEq(arbitrage.result.cost_per_nicp_icp, CostPerUnit)
        /\ FracEq(arbitrage.result.future_icp_per_nicp, FutureValuePerUnit)
        /\ FracEq(arbitrage.result.profit_percentage_6m, ProfitPercent)
        /\ ExampleRate /\ arbitrage.nicp_price_in_icp = 979 =>
              /\ FracLess(Whole(13), arbitrage.result.profit_percentage_6m)
              /\ FracLess(arbitrage.result.profit_percentage_6m, Whole(14))
              /\ arbitrage.result.viable

\* The price 0.979 was evaluated at the default rate 0.9001
C14_WorkedExampleSeen ==
    /\ Evaluated
    /\ ~UsesSuppliedRate(arbitrage.waterneuron_data)
    /\ ExampleRate
    /\ arbitrage.nicp_price_in_icp = 979

\* The compounding and the linear annual figure of the prose, as percentages
Compounded ==
    FracMul(FracSub(FracPow(FracAdd(Whole(1), ProfitRatio),
                            12 \div arbitrage.result.dissolution_months),
                    Whole(1)),
            Whole(100))
LinearScaleUp ==
    FracMul(FracDiv(FracMul(ProfitRatio, Whole(12)),
                    Whole(arbitrage.result.dissolution_months)),
            Whole(100))

\* C15: the annualized return of the result is the compounding figure
\* (1 + profit_ratio)^(12/dissolution_months) - 1, with the 6-month period
\* (1 + profit_ratio)^2 - 1, and differs from the linear scale-up
\* profit_ratio * 12/months whenever there is a profit or a loss.
C15_AnnualizedCompounds ==
    Evaluated =>
        /\ arbitrage.result.dissolution_months = 6
        /\ FracEq(arbitrage.result.annualized_return, Compounded)
        /\ ~FracEq(ProfitRatio, Whole(0)) =>
              ~FracEq(arbitrage.result.annualized_return, LinearScaleUp)

\* A result with a loss, whose annual figure lies above the linear one
C15_CompoundAboveLinear ==
    /\ Evaluated
    /\ FracLess(ProfitRatio, Whole(0))
    /\ FracLess(LinearScaleUp, arbitrage.result.annualized_return)

----------------------------------------------------------------------------
(* Properties of the notifications, checked under SpecChannel *)

\* C19: no send_message call of a notification job carries a text longer
\* than 4000 characters, however many pairs the market update lists; a longer
\* text goes out in parts.  The program sends the whole text in one call.
C19_NoSendAboveCap ==
    \A i \in 1..Len(outbox) : outbox[i].text <= 4000

----------------------------------------------------------------------------
(* Properties of the scheduler, checked under SpecScheduler *)

\* C20: no error raised inside a scheduled job crosses into the scheduler,
\* and while the running flag is set the loop of the scheduler thread is
\* alive to run the next pending job.
C20_NoErrorCrossesIntoScheduler ==
    /\ ~scheduler.crossed
    /\ running => scheduler.alive

\* A job raised inside, was caught, and the scheduler went on to run another
\* job, which returned
C20_JobRanAfterCaughtError ==
    /\ running
    /\ scheduler.alive
    /\ scheduler.caught >= 1
    /\ scheduler.runs >= 2
    /\ scheduler.body = "returns"

----------------------------------------------------------------------------
(* Properties of the request cache, checked under SpecCache (one thread)    *)
(* and SpecCacheRace (two threads)                                          *)

\* The call of the scheduler thread, once it has looked at the cache
SequentialCall == callers["scheduler"]
Decided(call) == call.pc \in {"fetch", "store", "done"}
Issued(call) == call.fetch # 0
ServedFromCache(call) == call.pc = "done" /\ call.result.from_cache

\* The successful requests for the URL of the call that came before it
Prior(call) ==
    {i \in 1..Len(fetches) :
        /\ fetches[i].url = call.url
        /\ fetches[i].ok
        /\ (Issued(call) => i < call.fetch)}
LastPrior(call) == CHOOSE i \in Prior(call) : \A j \in Prior(call) : j <= i

\* C21 as stated, the 30 seconds counted from the moment the successful
\* fetch returned: a later call made less than 30 seconds after it issues no
\* request and returns the data of that fetch, a call made 30 seconds or more
\* after it issues a new request.
C21_FreshSinceFetchReturned ==
    LET call == SequentialCall
    IN  Decided(call) /\ Prior(call) # {} =>
            LET f == LastPrior(call)
            IN  \A t \in fetches[f].completed :
                    /\ call.current_time - t < cache_duration =>
                          /\ ~Issued(call)
                          /\ call.pc = "done" => call.result = ReturnData(f, TRUE)
                    /\ call.current_time - t >= cache_duration => Issued(call)

\* C21, amended: the 30 seconds are counted from the clock reading of the
\* call that made the successful fetch, taken before it sent the request.  A
\* later call whose own clock reading is less than 30 seconds after that one
\* issues no request and returns the data of that fetch; one whose reading is
\* 30 seconds or more after it issues a new request; so does a call for a URL
\* that was never fetched with success.
C21_FreshSinceClockReading ==
    LET call == SequentialCall
    IN  Decided(call) =>
            IF Prior(call) = {} THEN Issued(call)
            ELSE LET f == LastPrior(call)
                 IN  /\ call.current_time - fetches[f].clock < cache_duration =>
                           /\ ~Issued(call)
                           /\ call.pc = "done" => call.result = ReturnData(f, TRUE)
                     /\ call.current_time - fetches[f].clock >= cache_duration =>
                           Issued(call)

\* A call served from the cache 29 seconds after the clock reading of a fetch
\* that took 10 seconds
C21_ServedWithinWindow ==
    LET call == SequentialCall
    IN  /\ ServedFromCache(call)
        /\ fetches[call.result.data].completed = {fetches[call.result.data].clock + 10}
        /\ call.current_time - fetches[call.result.data].clock = cache_duration - 1

\* C29: a call whose upstream request fails returns None, never a cached
\* value, and leaves every entry of the cache as it was.
C29_FailureLeavesCache ==
    [][\A th \in Threads :
          /\ callers[th].pc = "fetch"
          /\ callers'[th].pc = "done"
          => /\ cache' = cache
             /\ callers'[th].result = ReturnNone]_vars

\* A failed request for a URL whose entry had expired: None was returned and
\* the expired entry is still there
C29_FailedWithExpiredEntry ==
    LET call == SequentialCall
    IN  /\ call.pc = "done"
        /\ Issued(call)
        /\ call.result = ReturnNone
        /\ ~fetches[call.fetch].ok
        /\ \E entry \in cache[call.url] :
              call.current_time - entry.time >= cache_duration

\* C25: with the calls of the two threads interleaved, every cache entry is
\* the (time, data) pair of one successful fetch of its URL, and every value
\* served from the cache comes from a request that started less than 30
\* seconds before the serving call read the clock.
C25_EntriesWholeAndFresh ==
    /\ \A url \in Urls : \A entry \in cache[url] :
          /\ entry.data \in 1..Len(fetches)
          /\ fetches[entry.data].ok
          /\ fetches[entry.data].url = url
          /\ fetches[entry.data].clock = entry.time
    /\ \A th \in Threads :
          ServedFromCache(callers[th]) =>
              callers[th].current_time - fetches[callers[th].result.data].started
                  < cache_duration

\* Two requests for one URL overlapped, the one that began first stored its
\* entry last, and a call was then served from that entry
C25_ServedAfterRace ==
    /\ Len(fetches) = 2
    /\ fetches[1].ok /\ fetches[2].ok
    /\ fetches[1].url = fetches[2].url
    /\ fetches[1].caller # fetches[2].caller
    /\ \A t \in fetches[1].completed : fetches[2].started < t
    /\ \E th \in Threads :
          /\ ServedFromCache(callers[th])
          /\ callers[th].result.data = 1
          /\ callers[th].current_time > fetches[2].clock

----------------------------------------------------------------------------
(* Properties of the WaterNeuron client, checked under SpecWaterneuron *)

\* C30: after every get_exchange_rate call the cache holds only responses
\* with success = true; a call that returns a fallback response leaves the
\* cache as it was, so the call that follows a failure makes a new request;
\* a successful response is cached and is served without a request to every
\* call that begins less than 120 seconds after it was stored.
C30_OnlySuccessCached ==
    [][op'.name = "get_exchange_rate" =>
          /\ \A entry \in wn_cache' : entry.cached_data.success
          /\ ~wn_call'.result.success => wn_cache' = wn_cache
          /\ (wn_call.called /\ ~wn_call.result.success) => wn_call'.fetched
          /\ (wn_call'.fetched /\ wn_call'.result.success) =>
                wn_cache' = {[cached_data |-> wn_call'.result, timestamp |-> now']}
          /\ \A entry \in wn_cache :
                now - entry.timestamp < waterneuron_cache_duration =>
                    /\ ~wn_call'.fetched
                    /\ wn_call'.result = entry.cached_data]_vars

\* An answer the parser could not read came back while the cache held an
\* expired successful response: the fallback was returned, the entry stayed
C30_ParseFailureNotCached ==
    /\ wn_call.called
    /\ wn_call.fetched
    /\ wn_call.outcome = "parse_failure"
    /\ ~wn_call.result.success
    /\ \E entry \in wn_cache :
          /\ entry.cached_data.success
          /\ wn_call.began - entry.timestamp >= waterneuron_cache_duration

----------------------------------------------------------------------------
(* Properties of the users table, checked under SpecUsers *)

\* The ids of the rows that hold the external id
RowsWith(rows, telegram_id) ==
    {rows[i].id : i \in {j \in 1..Len(rows) : rows[j].telegram_id = telegram_id}}

\* C28: an add_user call never raises; with an external id that is not yet
\* registered it creates exactly one row for the id and returns the id of
\* that row, whichever users exist; with a registered id it creates no row
\* and returns the id of the existing row.
C28_AddUserRegistersOnce ==
    [][op'.name = "add_user" =>
          LET telegram_id == registration'.telegram_id
          IN  /\ ~registration'.raised
              /\ RowsWith(users, telegram_id) = {} =>
                    /\ Len(users') = Len(users) + 1
                    /\ Cardinality(RowsWith(users', telegram_id)) = 1
                    /\ registration'.returned = RowsWith(users', telegram_id)
              /\ RowsWith(users, telegram_id) # {} =>
                    /\ Len(users') = Len(users)
                    /\ registration'.returned = RowsWith(users, telegram_id)]_vars
====
